---- MODULE Spec2Model ----
(***************************************************************************)
(* Model of the gene / transcript / exon builders of gte (src/gte/src/     *)
(* model.rs): strand and interval validation, coding-coordinate            *)
(* normalisation, exon-feature inference with backtracking, frame          *)
(* assignment, the coding_coord query and the identifier mutators; and of  *)
(* the genes stream of the refFlat reader.                                 *)
(*                                                                         *)
(* Option<T> values are sequences: None is << >> and Some(x) is << x >>.   *)
(* u64 arithmetic is modular; the word is narrowed from 2^64 to            *)
(* WordModulus, which exceeds every coordinate of the model, so that a     *)
(* wrapped value compares against coordinates as the 64-bit one does.      *)
(* A build with overflow checks panics where the subtraction underflows;   *)
(* a build without them continues with the wrapped value.                  *)
(***************************************************************************)
EXTENDS Integers, Sequences, FiniteSets, TLC

VARIABLES pc, overflow_checks, input, result, last, rows, row_pos, yielded

vars == <<pc, overflow_checks, input, result, last, rows, row_pos, yielded>>

\* the refFlat reader: its rows, the next row to read and what the genes
\* stream has returned so far
stream_vars == <<rows, row_pos, yielded>>

\* ---------------------------------------------------------------- bounds
MaxCoord == 8
MaxExons == 3
MaxCoordApi == 3
MaxRows == 4
MaxNoneCalls == 2

\* ------------------------------------------------------------ primitives
WordModulus == 1048576

None == << >>
Some(x) == << x >>
IsSome(o) == Len(o) = 1
Unwrap(o) == o[1]

Max(a, b) == IF a >= b THEN a ELSE b
Min(a, b) == IF a <= b THEN a ELSE b

\* u64 subtraction and addition of a build without overflow checks
USub(a, b) == (a - b) % WordModulus
UAdd(a, b) == (a + b) % WordModulus
\* the same operations overflow: a build with overflow checks panics here
SubOvf(a, b) == a < b
AddOvf(a, b) == a + b >= WordModulus

\* a variant of Interval::new that also rejects the empty range
IntervalNewOk_nonempty(start, end) == end > start

\* bio::utils::Interval::new(start..end) is Ok iff end >= start
IntervalNewOk(start, end) == end >= start

Strands == {"Forward", "Reverse", "Unknown"}
StrandChars == {"+", "f", "F", "-", "r", "R", ".", "?"}

\* bio::utils::Strand::from_char
StrandFromChar(c) ==
    IF c \in {"+", "f", "F"} THEN Some("Forward")
    ELSE IF c \in {"-", "r", "R"} THEN Some("Reverse")
    ELSE IF c \in {".", "?"} THEN Some("Unknown")
    ELSE None

\* a variant of resolve_strand_input in which the strand value wins over a
\* strand character that stands for another strand
resolve_strand_input_value_wins(strand, strand_char) ==
    IF ~IsSome(strand) /\ ~IsSome(strand_char)
    THEN [ok |-> FALSE, err |-> "UnspecifiedStrand", val |-> "Unknown"]
    ELSE IF ~IsSome(strand_char)
    THEN [ok |-> TRUE, err |-> "", val |-> Unwrap(strand)]
    ELSE IF ~IsSome(StrandFromChar(Unwrap(strand_char)))
    THEN [ok |-> FALSE, err |-> "InvalidStrandChar", val |-> "Unknown"]
    ELSE IF ~IsSome(strand)
    THEN [ok |-> TRUE, err |-> "",
          val |-> Unwrap(StrandFromChar(Unwrap(strand_char)))]
    ELSE [ok |-> TRUE, err |-> "", val |-> Unwrap(strand)]

\* Result<Strand, ModelError>
resolve_strand_input(strand, strand_char) ==
    IF ~IsSome(strand) /\ ~IsSome(strand_char)
    THEN [ok |-> FALSE, err |-> "UnspecifiedStrand", val |-> "Unknown"]
    ELSE IF ~IsSome(strand_char)
    THEN [ok |-> TRUE, err |-> "", val |-> Unwrap(strand)]
    ELSE LET parsed == StrandFromChar(Unwrap(strand_char)) IN
         IF ~IsSome(parsed)
         THEN [ok |-> FALSE, err |-> "InvalidStrandChar", val |-> "Unknown"]
         ELSE IF ~IsSome(strand)
         THEN [ok |-> TRUE, err |-> "", val |-> Unwrap(parsed)]
         ELSE IF Unwrap(strand) = Unwrap(parsed)
         THEN [ok |-> TRUE, err |-> "", val |-> Unwrap(strand)]
         ELSE [ok |-> FALSE, err |-> "ConflictingStrand", val |-> "Unknown"]

\* a variant of coord_to_interval that also rejects the empty interval
coord_to_interval_nonempty(start, end) ==
    IF end > start
    THEN [ok |-> TRUE, err |-> ""]
    ELSE [ok |-> FALSE, err |-> "InvalidInterval"]

\* Result<Interval, ModelError>
coord_to_interval(start, end) ==
    IF IntervalNewOk(start, end)
    THEN [ok |-> TRUE, err |-> ""]
    ELSE [ok |-> FALSE, err |-> "InvalidInterval"]

\* ------------------------------------------------------- features, exons
feat(start, end, kind) ==
    [start |-> start, end |-> end, kind |-> kind, frame |-> None]

span(fx) == fx.end - fx.start

\* meta: the seq_name and the exon, transcript and gene identifiers given
\* to infer_exons
exn(start, end, meta, strand, features) ==
    [seq_name |-> meta.seq_name, start |-> start, end |-> end,
     strand |-> strand, id |-> meta.exon_id,
     transcript_id |-> meta.transcript_id, gene_id |-> meta.gene_id,
     attributes |-> << >>, features |-> features]

\* every Interval::new(..).unwrap() of a list of features succeeds
AllValid(fs) == \A i \in DOMAIN fs : IntervalNewOk(fs[i].start, fs[i].end)

\* Vec::sort of (u64, u64) pairs: ascending by start, then by end
CoordLe(a, b) == a[1] < b[1] \/ (a[1] = b[1] /\ a[2] <= b[2])

RECURSIVE insert_sorted(_, _)
insert_sorted(s, c) ==
    IF s = << >> THEN << c >>
    ELSE IF CoordLe(c, s[1]) THEN << c >> \o s
    ELSE << s[1] >> \o insert_sorted(Tail(s), c)

RECURSIVE sort_coords(_)
sort_coords(s) ==
    IF s = << >> THEN << >>
    ELSE insert_sorted(sort_coords(Tail(s)), s[1])

\* ------------------------------------------------- coding normalisation
\* one iteration of the Forward loop of adjust_coding_coord
adjust_forward_step(a, exon_start, exon_end) ==
    IF exon_start <= a.end /\ a.end <= exon_end
    THEN LET adj_end == Max(USub(a.end, a.codon_rem), exon_start)
             taken == USub(a.end, adj_end)
             rem == USub(a.codon_rem, taken)
         IN [a EXCEPT !.end = adj_end, !.codon_rem = rem,
                      !.ovf = @ \/ SubOvf(a.end, a.codon_rem)
                                \/ SubOvf(a.end, adj_end)
                                \/ SubOvf(a.codon_rem, taken)]
    ELSE a

\* one iteration of the Reverse loop of adjust_coding_coord
adjust_reverse_step(a, exon_start, exon_end) ==
    IF exon_start <= a.start /\ a.start <= exon_end
    THEN LET adj_start == Min(UAdd(a.start, a.codon_rem), exon_end)
             taken == USub(adj_start, a.start)
             rem == USub(a.codon_rem, taken)
         IN [a EXCEPT !.start = adj_start, !.codon_rem = rem,
                      !.ovf = @ \/ AddOvf(a.start, a.codon_rem)
                                \/ SubOvf(adj_start, a.start)
                                \/ SubOvf(a.codon_rem, taken)]
    ELSE a

\* exon_coords.iter().rev(); the break sits inside the containment test
RECURSIVE adjust_forward_loop(_, _, _)
adjust_forward_loop(a, exon_coords, i) ==
    IF i = 0 THEN a
    ELSE LET inside == exon_coords[i][1] <= a.end /\ a.end <= exon_coords[i][2]
             b == adjust_forward_step(a, exon_coords[i][1], exon_coords[i][2])
         IN IF inside /\ b.codon_rem = 0 THEN b
            ELSE adjust_forward_loop(b, exon_coords, i - 1)

\* exon_coords.iter(); the break sits inside the containment test
RECURSIVE adjust_reverse_loop(_, _, _)
adjust_reverse_loop(a, exon_coords, i) ==
    IF i > Len(exon_coords) THEN a
    ELSE LET inside == exon_coords[i][1] <= a.start /\ a.start <= exon_coords[i][2]
             b == adjust_reverse_step(a, exon_coords[i][1], exon_coords[i][2])
         IN IF inside /\ b.codon_rem = 0 THEN b
            ELSE adjust_reverse_loop(b, exon_coords, i + 1)

\* adjust_coding_coord: the adjusted (start, end), the codon bases left
\* unstripped when the loop ends, and whether a subtraction overflowed
\* variant: the Unknown strand is normalised as the Forward strand is
adjust_coding_coord_unknown_as_forward(start, end, strand, exon_coords) ==
    LET a0 == [start |-> start, end |-> end, codon_rem |-> 3, ovf |-> FALSE]
    IN IF strand = "Reverse"
       THEN adjust_reverse_loop(a0, exon_coords, 1)
       ELSE adjust_forward_loop(a0, exon_coords, Len(exon_coords))

adjust_coding_coord(start, end, strand, exon_coords) ==
    LET a0 == [start |-> start, end |-> end, codon_rem |-> 3, ovf |-> FALSE]
    IN IF strand = "Forward"
       THEN adjust_forward_loop(a0, exon_coords, Len(exon_coords))
       ELSE IF strand = "Reverse"
       THEN adjust_reverse_loop(a0, exon_coords, 1)
       ELSE a0

\* ------------------------------------------------------- backtracking
\* one iteration of the loop of backtrack_and_push on exons[i]
backtrack_step(b, i, efk) ==
    LET exon == b.exons[i]
        fx_start == Max(exon.start, USub(exon.end, b.codon_rem))
        ovf1 == SubOvf(exon.end, b.codon_rem)
        fx == feat(fx_start, exon.end, efk)
        ovf2 == SubOvf(b.codon_rem, span(fx))
        n_fxs == Len(exon.features)
        adjust == n_fxs > 0 /\ exon.features[n_fxs].kind = "UTR3"
                  /\ efk = "StopCodon"
        fxp_start == exon.features[n_fxs].start
        features ==
            IF ~adjust THEN exon.features
            ELSE IF fxp_start = fx.start
                 THEN SubSeq(exon.features, 1, n_fxs - 1)
                 ELSE [exon.features EXCEPT ![n_fxs].end = fx.start]
    IN IF ~IntervalNewOk(fx.start, fx.end)
       THEN [b EXCEPT !.panic = TRUE, !.ovf = @ \/ ovf1]
       ELSE IF adjust /\ fxp_start # fx.start
               /\ ~IntervalNewOk(fxp_start, fx.start)
       THEN [b EXCEPT !.panic = TRUE, !.ovf = @ \/ ovf1 \/ ovf2]
       ELSE [b EXCEPT !.exons[i].features = Append(features, fx),
                      !.codon_rem = USub(b.codon_rem, span(fx)),
                      !.ovf = @ \/ ovf1 \/ ovf2]

\* exons.iter_mut().rev(), leaving the loop once codon_rem == 0
RECURSIVE backtrack_loop(_, _, _)
backtrack_loop(b, i, efk) ==
    IF i = 0 \/ b.codon_rem = 0 \/ b.panic THEN b
    ELSE backtrack_loop(backtrack_step(b, i, efk), i - 1, efk)

backtrack_and_push(exons, efk, codon_rem) ==
    backtrack_loop([exons |-> exons, codon_rem |-> codon_rem,
                    panic |-> FALSE, ovf |-> FALSE], Len(exons), efk)

\* ------------------------------------------- statements of the main walk
\* The walk state w: exons pushed so far, the features of the exon being
\* built (cur), both codon counters, the status ("ok", "panic" or an error
\* kind) and whether an arithmetic overflow has happened.  Every statement
\* is skipped once the status is not "ok".

\* a variant of push_feat that puts the feature in front of the others
push_feat_front(w, start, end, kind, ovf) ==
    IF w.status # "ok" THEN w
    ELSE IF ~IntervalNewOk(start, end)
    THEN [w EXCEPT !.status = "panic", !.ovf = @ \/ ovf]
    ELSE [w EXCEPT !.cur = << feat(start, end, kind) >> \o @,
                   !.ovf = @ \/ ovf]

\* exon.features.push(feat(start, end, kind)); ovf: an overflow in the
\* arguments
push_feat(w, start, end, kind, ovf) ==
    IF w.status # "ok" THEN w
    ELSE IF ~IntervalNewOk(start, end)
    THEN [w EXCEPT !.status = "panic", !.ovf = @ \/ ovf]
    ELSE [w EXCEPT !.cur = Append(@, feat(start, end, kind)),
                   !.ovf = @ \/ ovf]

\* codon1_rem -= n
dec_codon1(w, n) ==
    IF w.status # "ok" THEN w
    ELSE [w EXCEPT !.codon1_rem = USub(@, n),
                   !.ovf = @ \/ SubOvf(w.codon1_rem, n)]

\* codon2_rem -= n
dec_codon2(w, n) ==
    IF w.status # "ok" THEN w
    ELSE [w EXCEPT !.codon2_rem = USub(@, n),
                   !.ovf = @ \/ SubOvf(w.codon2_rem, n)]

\* let fx = feat(..); codonN_rem -= fx.span(); exon.features.push(fx)
push_codon1(w, start, end, kind, ovf) ==
    dec_codon1(push_feat(w, start, end, kind, ovf), USub(end, start))

push_codon2(w, start, end, kind, ovf) ==
    dec_codon2(push_feat(w, start, end, kind, ovf), USub(end, start))

\* codon1_rem = backtrack_and_push(&mut exons, StopCodon, codon1_rem, &feat)
backtrack_stop(w) ==
    IF w.status # "ok" THEN w
    ELSE LET b == backtrack_and_push(w.exons, "StopCodon", w.codon1_rem)
         IN [w EXCEPT !.exons = b.exons, !.codon1_rem = b.codon_rem,
                      !.ovf = @ \/ b.ovf,
                      !.status = IF b.panic THEN "panic" ELSE "ok"]

\* codon2_rem = backtrack_and_push(&mut exons, StartCodon, codon2_rem, &feat)
backtrack_start(w) ==
    IF w.status # "ok" THEN w
    ELSE LET b == backtrack_and_push(w.exons, "StartCodon", w.codon2_rem)
         IN [w EXCEPT !.exons = b.exons, !.codon2_rem = b.codon_rem,
                      !.ovf = @ \/ b.ovf,
                      !.status = IF b.panic THEN "panic" ELSE "ok"]

\* return Err(ModelError::CodingTooSmall(tid)) when the region has < 3 bases
check_too_small(w, c0, c1) ==
    IF w.status = "ok" /\ USub(c1, c0) < 3
    THEN [w EXCEPT !.status = "CodingTooSmall"]
    ELSE w

\* let fx = feat(from, min(limit, from + codon2_rem), StopCodon); ...;
\* if codon2_end < end { push(feat(codon2_end, end, utr2)) }
push_stop_forward(w, from, limit, end, utr2) ==
    LET codon2_end == Min(limit, UAdd(from, w.codon2_rem))
        w1 == push_codon2(w, from, codon2_end, "StopCodon",
                          AddOvf(from, w.codon2_rem))
    IN IF codon2_end < end
       THEN push_feat(w1, codon2_end, end, utr2, FALSE)
       ELSE w1

\* if codon1_rem > 0 { let fx = feat(start, min(limit, start + codon1_rem),
\* StartCodon); codon1_rem -= fx.span(); push(fx) }
continue_start_forward(w, start, limit) ==
    IF w.status = "ok" /\ w.codon1_rem > 0
    THEN push_codon1(w, start, Min(limit, UAdd(start, w.codon1_rem)),
                     "StartCodon", AddOvf(start, w.codon1_rem))
    ELSE w

\* let fx = feat(max(start, c0 - rem), c0, StopCodon); codon1_rem -=
\* fx.span(); push(fx); codon1_rem = backtrack_and_push(.., StopCodon, ..)
push_stop_reverse(w, start, c0, rem) ==
    backtrack_stop(push_codon1(w, Max(start, USub(c0, rem)), c0,
                               "StopCodon", SubOvf(c0, rem)))

\* let fx = feat(max(start, c1 - codon2_rem), c1, StartCodon); codon2_rem
\* -= fx.span(); push(fx); codon2_rem = backtrack_and_push(.., StartCodon)
push_start_reverse(w, start, c1) ==
    backtrack_start(push_codon2(w, Max(start, USub(c1, w.codon2_rem)), c1,
                                "StartCodon", SubOvf(c1, w.codon2_rem)))

\* --------------------------------------------------- exon classification
\* variant: the labels of the Forward strand swapped
utr1_swapped(strand) ==
    IF strand = "Forward" THEN "UTR3"
    ELSE IF strand = "Reverse" THEN "UTR3" ELSE "UTR"

utr1(strand) ==
    IF strand = "Forward" THEN "UTR5"
    ELSE IF strand = "Reverse" THEN "UTR3" ELSE "UTR"

utr2(strand) ==
    IF strand = "Forward" THEN "UTR3"
    ELSE IF strand = "Reverse" THEN "UTR5" ELSE "UTR"

\* the branch `start < coding_r.0`
infer_before_coding(w, start, end, c0, c1, strand) ==
    LET utr_end == IF strand = "Reverse"
                   THEN Min(end, USub(c0, w.codon1_rem))
                   ELSE Min(end, c0)
        utr_ovf == strand = "Reverse" /\ SubOvf(c0, w.codon1_rem)
        w0 == IF start < utr_end
              THEN push_feat(w, start, utr_end, utr1(strand), utr_ovf)
              ELSE [w EXCEPT !.ovf = @ \/ utr_ovf]
    IN IF end < c0 THEN w0
       ELSE IF end = c0
       THEN IF strand = "Reverse"
            THEN push_stop_reverse(w0, start, c0, w0.codon1_rem)
            ELSE w0
       ELSE IF end > c0 /\ end < c1
       THEN LET w1 ==
                  IF strand = "Forward"
                  THEN push_codon1(w0, c0, Min(end, UAdd(c0, 3)),
                                   "StartCodon", AddOvf(c0, 3))
                  ELSE IF strand = "Reverse"
                  THEN push_stop_reverse(w0, start, c0, w0.codon1_rem)
                  ELSE w0
            IN push_feat(w1, c0, end, "CDS", FALSE)
       ELSE IF end = c1
       THEN LET w1 == check_too_small(w0, c0, c1) IN
            IF strand = "Forward"
            THEN push_feat(
                   push_codon1(w1, c0, UAdd(c0, 3), "StartCodon", AddOvf(c0, 3)),
                   c0, c1, "CDS", FALSE)
            ELSE IF strand = "Reverse"
            THEN push_start_reverse(
                   push_feat(push_stop_reverse(w1, start, c0, w1.codon1_rem),
                             c0, c1, "CDS", FALSE),
                   start, c1)
            ELSE push_feat(w1, c0, c1, "CDS", FALSE)
       ELSE IF end > c1
       THEN LET w1 == check_too_small(w0, c0, c1) IN
            IF strand = "Forward"
            THEN LET w2 == dec_codon1(
                             push_feat(w1, c0, UAdd(c0, 3), "StartCodon",
                                       AddOvf(c0, 3)), 3)
                     w3 == push_feat(w2, c0, c1, "CDS", FALSE)
                 IN push_stop_forward(w3, c1, end, end, utr2(strand))
            ELSE IF strand = "Reverse"
            THEN LET w2 == push_stop_reverse(w1, start, c0, w1.codon2_rem)
                     w3 == push_feat(w2, c0, c1, "CDS", FALSE)
                     w4 == push_codon2(w3, USub(c1, w3.codon2_rem), c1,
                                       "StartCodon", SubOvf(c1, w3.codon2_rem))
                 IN push_feat(w4, c1, end, utr2(strand), FALSE)
            ELSE push_feat(push_feat(w1, c0, c1, "CDS", FALSE),
                           c1, end, utr2(strand), FALSE)
       ELSE [w0 EXCEPT !.status = "unexpected"]

\* the branch `start == coding_r.0`
infer_at_coding_start(w, start, end, c0, c1, strand) ==
    IF end < c1
    THEN LET w1 ==
               IF strand = "Forward"
               THEN push_codon1(w, start, Min(UAdd(start, w.codon1_rem), end),
                                "StartCodon", AddOvf(start, w.codon1_rem))
               ELSE IF strand = "Reverse" THEN backtrack_stop(w)
               ELSE w
         IN push_feat(w1, start, end, "CDS", FALSE)
    ELSE IF end = c1
    THEN LET w1 == check_too_small(w, c0, c1) IN
         IF strand = "Forward"
         THEN LET w2 == push_feat(w1, start, UAdd(start, 3), "StartCodon",
                                  AddOvf(start, 3))
                  w3 == IF w2.status = "ok"
                        THEN [w2 EXCEPT !.codon1_rem = 0] ELSE w2
              IN push_feat(w3, start, end, "CDS", FALSE)
         ELSE IF strand = "Reverse"
         THEN LET w2 == push_feat(backtrack_stop(w1), start, end, "CDS", FALSE)
                  w3 == push_feat(w2, USub(end, 3), end, "StartCodon",
                                  SubOvf(end, 3))
              IN IF w3.status = "ok"
                 THEN [w3 EXCEPT !.codon2_rem = 0] ELSE w3
         ELSE push_feat(w1, start, end, "CDS", FALSE)
    ELSE IF end > c1
    THEN LET w1 == check_too_small(w, c0, c1) IN
         IF strand = "Forward"
         THEN LET w2 == dec_codon1(
                          push_feat(w1, start, UAdd(start, 3), "StartCodon",
                                    AddOvf(start, 3)), 3)
                  w3 == push_feat(w2, start, c1, "CDS", FALSE)
              IN push_stop_forward(w3, c1, end, end, utr2(strand))
         ELSE IF strand = "Reverse"
         THEN LET w2 == push_feat(backtrack_stop(w1), start, c1, "CDS", FALSE)
                  w3 == dec_codon2(
                          push_feat(w2, USub(c1, 3), c1, "StartCodon",
                                    SubOvf(c1, 3)), 3)
              IN push_feat(w3, c1, end, utr2(strand), FALSE)
         ELSE push_feat(push_feat(w1, start, c1, "CDS", FALSE),
                        c1, end, utr2(strand), FALSE)
    ELSE [w EXCEPT !.status = "unexpected"]

\* the branch `start > coding_r.0 && start < coding_r.1`
infer_inside_coding(w, start, end, c0, c1, strand) ==
    IF end < c1
    THEN LET w1 == IF strand = "Forward"
                   THEN continue_start_forward(w, start, end) ELSE w
         IN push_feat(w1, start, end, "CDS", FALSE)
    ELSE IF end = c1
    THEN IF strand = "Forward"
         THEN push_feat(continue_start_forward(w, start, end),
                        start, end, "CDS", FALSE)
         ELSE IF strand = "Reverse"
         THEN push_start_reverse(push_feat(w, start, end, "CDS", FALSE),
                                 start, c1)
         ELSE push_feat(w, start, end, "CDS", FALSE)
    ELSE IF end > c1
    THEN IF strand = "Forward"
         THEN LET w1 == continue_start_forward(w, start, c1)
                  w2 == push_feat(w1, start, c1, "CDS", FALSE)
              IN push_stop_forward(w2, c1, end, end, utr2(strand))
         ELSE IF strand = "Reverse"
         THEN LET w1 == push_feat(w, start, c1, "CDS", FALSE)
                  w2 == push_start_reverse(w1, start, c1)
              IN push_feat(w2, c1, end, utr2(strand), FALSE)
         ELSE push_feat(push_feat(w, start, c1, "CDS", FALSE),
                        c1, end, utr2(strand), FALSE)
    ELSE [w EXCEPT !.status = "unexpected"]

\* the branch `start >= coding_r.1`
infer_after_coding(w, start, end, c0, c1, strand) ==
    IF strand = "Forward"
    THEN IF w.codon2_rem > 0
         THEN push_stop_forward(w, start, end, end, utr2(strand))
         ELSE push_feat(w, start, end, utr2(strand), FALSE)
    ELSE IF strand = "Reverse"
    THEN push_feat(backtrack_start(w), start, end, utr2(strand), FALSE)
    ELSE push_feat(w, start, end, utr2(strand), FALSE)

\* the classification of one exon against the coding region
\* variant: the last branch tests `start > coding_r.1`
infer_classify_strict(w, start, end, c0, c1, strand) ==
    IF start < c0
    THEN infer_before_coding(w, start, end, c0, c1, strand)
    ELSE IF start = c0
    THEN infer_at_coding_start(w, start, end, c0, c1, strand)
    ELSE IF start > c0 /\ start < c1
    THEN infer_inside_coding(w, start, end, c0, c1, strand)
    ELSE IF start > c1
    THEN infer_after_coding(w, start, end, c0, c1, strand)
    ELSE [w EXCEPT !.status = "unexpected"]

infer_classify(w, start, end, c0, c1, strand) ==
    IF start < c0
    THEN infer_before_coding(w, start, end, c0, c1, strand)
    ELSE IF start = c0
    THEN infer_at_coding_start(w, start, end, c0, c1, strand)
    ELSE IF start > c0 /\ start < c1
    THEN infer_inside_coding(w, start, end, c0, c1, strand)
    ELSE IF start >= c1
    THEN infer_after_coding(w, start, end, c0, c1, strand)
    ELSE [w EXCEPT !.status = "unexpected"]

\* exons.push(exon), with the features collected for it
push_exon(w, start, end, meta, strand) ==
    IF w.status # "ok" THEN w
    ELSE [w EXCEPT !.exons = Append(@, exn(start, end, meta, strand, w.cur)),
                   !.cur = << >>]

\* the body of the loop over exon_coords
infer_exon_step(w, start, end, c0, c1, strand, meta) ==
    push_exon(infer_classify([w EXCEPT !.cur = << >>], start, end, c0, c1,
                             strand),
              start, end, meta, strand)

RECURSIVE infer_walk(_, _, _, _, _, _, _)
infer_walk(w, exon_coords, i, c0, c1, strand, meta) ==
    IF i > Len(exon_coords) \/ w.status # "ok" THEN w
    ELSE infer_walk(
           infer_exon_step(w, exon_coords[i][1], exon_coords[i][2], c0, c1,
                           strand, meta),
           exon_coords, i + 1, c0, c1, strand, meta)

\* ------------------------------------------------------ frame assignment
calc_next_frame(cur_span, cur_frame) ==
    IF cur_span >= cur_frame
    THEN (3 - ((cur_span - cur_frame) % 3)) % 3
    ELSE 3 - ((cur_frame - cur_span) % 3)

\* the inner loop of set_coding_frames over exon.features.iter_mut();
\* fr holds the three running frames
RECURSIVE set_feature_frames(_, _, _)
set_feature_frames(features, j, fr) ==
    IF j > Len(features) THEN [features |-> features, fr |-> fr]
    ELSE LET fx == features[j] IN
         IF fx.kind = "StartCodon"
         THEN set_feature_frames(
                [features EXCEPT ![j].frame = Some(fr.startc)], j + 1,
                [fr EXCEPT !.startc = calc_next_frame(span(fx), fr.startc)])
         ELSE IF fx.kind = "CDS"
         THEN set_feature_frames(
                [features EXCEPT ![j].frame = Some(fr.cds)], j + 1,
                [fr EXCEPT !.cds = calc_next_frame(span(fx), fr.cds)])
         ELSE IF fx.kind = "StopCodon"
         THEN set_feature_frames(
                [features EXCEPT ![j].frame = Some(fr.stopc)], j + 1,
                [fr EXCEPT !.stopc = calc_next_frame(span(fx), fr.stopc)])
         ELSE set_feature_frames(features, j + 1, fr)

\* the outer loop of set_coding_frames; order lists the exon indices in
\* the order of the iterator handed in
RECURSIVE set_frames_loop(_, _, _, _)
set_frames_loop(exons, order, k, fr) ==
    IF k > Len(order) THEN exons
    ELSE LET r == set_feature_frames(exons[order[k]].features, 1, fr)
         IN set_frames_loop([exons EXCEPT ![order[k]].features = r.features],
                            order, k + 1, r.fr)

set_coding_frames(exons, order) ==
    set_frames_loop(exons, order, 1, [startc |-> 0, cds |-> 0, stopc |-> 0])

Ascending(n) == [k \in 1..n |-> k]
Descending(n) == [k \in 1..n |-> n + 1 - k]

\* ------------------------------------------------------------ inference
\* Result of a builder: status is "Ok", "Err" or "Panic"
\* val of an Ok result: the exon list, exon, transcript or gene built
Ok(val) == [status |-> "Ok", err |-> "", val |-> val]
Err(kind) == [status |-> "Err", err |-> kind, val |-> << >>]
Panic == [status |-> "Panic", err |-> "", val |-> << >>]
\* the panic of assert!(false, "unexpected: ..")
Unexpected == [status |-> "Panic", err |-> "unexpected", val |-> << >>]

\* the end of infer_exon_features: the outcome of the walk w, with the
\* frames set; oc: the build has overflow checks
infer_finish(w, strand, oc) ==
    IF oc /\ w.ovf THEN Panic
    ELSE IF w.status = "panic" THEN Panic
    ELSE IF w.status = "unexpected" THEN Unexpected
    ELSE IF w.status # "ok" THEN Err(w.status)
    ELSE IF strand = "Forward"
    THEN Ok(set_coding_frames(w.exons, Ascending(Len(w.exons))))
    ELSE IF strand = "Reverse"
    THEN Ok(set_coding_frames(w.exons, Descending(Len(w.exons))))
    ELSE Ok(w.exons)

infer_exon_features(exon_coords, c0, c1, strand, meta, oc) ==
    infer_finish(
      infer_walk([exons |-> << >>, cur |-> << >>, codon1_rem |-> 3,
                  codon2_rem |-> 3, status |-> "ok", ovf |-> FALSE],
                 exon_coords, 1, c0, c1, strand, meta),
      strand, oc)

\* the stop-codon room test of infer_exons and its overflow
stop_codon_ok(strand, c0, c1, first_start, last_end) ==
    IF strand = "Forward" THEN UAdd(c1, 3) <= last_end
    ELSE IF strand = "Reverse" THEN USub(c0, 3) >= first_start
    ELSE USub(c0, 3) >= first_start /\ UAdd(c1, 3) <= last_end

stop_codon_ovf(strand, c0, c1, first_start) ==
    IF strand = "Forward" THEN AddOvf(c1, 3)
    ELSE IF strand = "Reverse" THEN SubOvf(c0, 3)
    ELSE SubOvf(c0, 3) \/ (USub(c0, 3) >= first_start /\ AddOvf(c1, 3))

\* the fold computing `cine`: each coding endpoint lies in some exon
coding_in_exons(exon_coords, c) ==
    \E i \in DOMAIN exon_coords :
        exon_coords[i][1] <= c /\ c <= exon_coords[i][2]

\* infer_exons after the sort and the normalisation: the bounds test and
\* the tests on the coding region (c0, c1), then the inference
infer_exons_checked(trx_start, trx_end, strand, meta, m_exon_coords, has_coding, c0, c1, first_start, last_end, oc) ==
    IF first_start # trx_start \/ last_end # trx_end
    THEN Err("UnmatchedExons")
    ELSE IF ~has_coding
    THEN Ok([i \in DOMAIN m_exon_coords |->
               exn(m_exon_coords[i][1], m_exon_coords[i][2], meta, strand,
                   << >>)])
    ELSE IF c0 >= c1 THEN Err("InvalidCodingInterval")
    ELSE IF c0 < first_start \/ c1 > last_end
    THEN Err("CodingNotFullyEnveloped")
    ELSE IF ~(coding_in_exons(m_exon_coords, c0)
              /\ coding_in_exons(m_exon_coords, c1))
    THEN Err("CodingInIntron")
    ELSE IF oc /\ stop_codon_ovf(strand, c0, c1, first_start) THEN Panic
    ELSE IF ~stop_codon_ok(strand, c0, c1, first_start, last_end)
    THEN Err("CodingTooLarge")
    ELSE infer_exon_features(m_exon_coords, c0, c1, strand, meta, oc)

\* infer_exons from the normalisation on; adj: the adjusted coding
\* coordinate, equal to the given one when there is nothing to adjust
infer_exons_adjusted(trx_start, trx_end, strand, meta, m_exon_coords, has_coding, adj, oc) ==
    IF oc /\ adj.ovf THEN Panic
    ELSE infer_exons_checked(trx_start, trx_end, strand, meta, m_exon_coords,
                             has_coding, adj.start, adj.end,
                             m_exon_coords[1][1],
                             m_exon_coords[Len(m_exon_coords)][2], oc)

\* infer_exons from the sort on
infer_exons_sorted(trx_start, trx_end, strand, meta, m_exon_coords, coding_coord, coding_incl_stop, oc) ==
    infer_exons_adjusted(
      trx_start, trx_end, strand, meta, m_exon_coords, IsSome(coding_coord),
      IF ~IsSome(coding_coord)
      THEN [start |-> 0, end |-> 0, codon_rem |-> 3, ovf |-> FALSE]
      ELSE IF coding_incl_stop
      THEN adjust_coding_coord(Unwrap(coding_coord)[1],
                               Unwrap(coding_coord)[2], strand, m_exon_coords)
      ELSE [start |-> Unwrap(coding_coord)[1],
            end |-> Unwrap(coding_coord)[2], codon_rem |-> 3, ovf |-> FALSE],
      oc)

\* infer_exons; trx_start / trx_end: the transcript interval
infer_exons(trx_start, trx_end, strand, meta, exon_coords, coding_coord, coding_incl_stop, oc) ==
    IF Len(exon_coords) = 0 THEN Err("UnspecifiedExons")
    ELSE IF \E i \in DOMAIN exon_coords : exon_coords[i][1] >= exon_coords[i][2]
    THEN Err("InvalidExonInterval")
    ELSE infer_exons_sorted(trx_start, trx_end, strand, meta,
                            sort_coords(exon_coords), coding_coord,
                            coding_incl_stop, oc)

\* ------------------------------------------------------------- builders
\* variant: exon coordinates take precedence over exons made beforehand
resolve_exons_input_coords_first(trx_start, trx_end, strand, meta, exons, exon_coords, coding_coord, coding_incl_stop, oc) ==
    IF IsSome(exon_coords)
    THEN infer_exons(trx_start, trx_end, strand, meta, Unwrap(exon_coords),
                     coding_coord, coding_incl_stop, oc)
    ELSE IF IsSome(exons) THEN Ok(Unwrap(exons))
    ELSE IF IsSome(coding_coord) THEN Err("UnspecifiedExons") ELSE Ok(<< >>)

resolve_exons_input(trx_start, trx_end, strand, meta, exons, exon_coords, coding_coord, coding_incl_stop, oc) ==
    IF IsSome(exons) THEN Ok(Unwrap(exons))
    ELSE IF ~IsSome(exon_coords)
    THEN IF IsSome(coding_coord) THEN Err("UnspecifiedExons") ELSE Ok(<< >>)
    ELSE infer_exons(trx_start, trx_end, strand, meta, Unwrap(exon_coords),
                     coding_coord, coding_incl_stop, oc)

\* the end of TBuilder::build: the transcript around the resolved exons
TBuilder_finish(b, strand, exons) ==
    IF exons.status # "Ok" THEN exons
    ELSE Ok([seq_name |-> b.seq_name, start |-> b.start, end |-> b.end,
             strand |-> strand, id |-> b.id, gene_id |-> b.gene_id,
             attributes |-> b.attributes, exons |-> exons.val])

\* TBuilder::build on the builder b
TBuilder_build(b, oc) ==
    LET interval == coord_to_interval(b.start, b.end)
        strand == resolve_strand_input(b.strand, b.strand_char)
        meta == [seq_name |-> b.seq_name, exon_id |-> None,
                 transcript_id |-> b.id, gene_id |-> b.gene_id]
    IN IF ~interval.ok THEN Err(interval.err)
       ELSE IF ~strand.ok THEN Err(strand.err)
       ELSE TBuilder_finish(
              b, strand.val,
              resolve_exons_input(b.start, b.end, strand.val, meta, b.exons,
                                  b.exon_coords, b.coding_coord,
                                  b.coding_incl_stop, oc))

\* TBuilder::new(seq_name, start, end) followed by the chained setters
TBuilder_new(seq_name, start, end) ==
    [builder |-> "TBuilder",
     seq_name |-> seq_name, start |-> start, end |-> end, strand |-> None,
     strand_char |-> None, id |-> None, gene_id |-> None,
     attributes |-> << >>, exons |-> None,
     exon_coords |-> None, coding_coord |-> None, coding_incl_stop |-> FALSE]

\* ------------------------------------------------- coding_coord queries
\* exon.features of all exons in iteration order, and in .rev() order
RECURSIVE Flatten(_)
Flatten(exons) ==
    IF exons = << >> THEN << >>
    ELSE exons[1].features \o Flatten(Tail(exons))

Reversed(s) == [k \in 1..Len(s) |-> s[Len(s) + 1 - k]]

\* first feature of the given kind: Some(index) or None
RECURSIVE first_of_kind(_, _, _)
first_of_kind(fs, j, kind) ==
    IF j > Len(fs) THEN None
    ELSE IF fs[j].kind = kind THEN Some(j)
    ELSE first_of_kind(fs, j + 1, kind)

\* the loop `codon_rem -= fx.span(); if codon_rem == 0 { return .. }` over
\* the stop codons of fs; returns the index of the feature returned
RECURSIVE stop_scan(_, _, _, _)
stop_scan(fs, j, codon_rem, ovf) ==
    IF j > Len(fs) THEN [idx |-> None, ovf |-> ovf]
    ELSE IF fs[j].kind = "StopCodon"
    THEN LET rem == USub(codon_rem, span(fs[j]))
             o == ovf \/ SubOvf(codon_rem, span(fs[j]))
         IN IF rem = 0 THEN [idx |-> Some(j), ovf |-> o]
            ELSE stop_scan(fs, j + 1, rem, o)
    ELSE stop_scan(fs, j + 1, codon_rem, ovf)

\* Transcript::coding_start_coord; pos: Option<u64>, ovf: an overflow
coding_start_coord(trx, incl_stop) ==
    LET fs == Flatten(trx.exons) IN
    IF trx.strand = "Forward"
    THEN LET i == first_of_kind(fs, 1, "StartCodon")
         IN [pos |-> IF IsSome(i) THEN Some(fs[Unwrap(i)].start) ELSE None,
             ovf |-> FALSE]
    ELSE IF trx.strand = "Reverse"
    THEN IF incl_stop
         THEN LET i == first_of_kind(fs, 1, "StopCodon")
              IN [pos |-> IF IsSome(i) THEN Some(fs[Unwrap(i)].start)
                          ELSE None,
                  ovf |-> FALSE]
         ELSE LET r == stop_scan(fs, 1, 3, FALSE)
              IN [pos |-> IF IsSome(r.idx) THEN Some(fs[Unwrap(r.idx)].end)
                          ELSE None,
                  ovf |-> r.ovf]
    ELSE IF incl_stop
    THEN LET i == first_of_kind(fs, 1, "CDS")
         IN [pos |-> IF IsSome(i) THEN Some(fs[Unwrap(i)].start) ELSE None,
             ovf |-> FALSE]
    ELSE [pos |-> None, ovf |-> FALSE]

\* Transcript::coding_end_coord
coding_end_coord(trx, incl_stop) ==
    LET fs == Reversed(Flatten(trx.exons)) IN
    IF trx.strand = "Forward"
    THEN IF incl_stop
         THEN LET i == first_of_kind(fs, 1, "StopCodon")
              IN [pos |-> IF IsSome(i) THEN Some(fs[Unwrap(i)].end)
                          ELSE None,
                  ovf |-> FALSE]
         ELSE LET r == stop_scan(fs, 1, 3, FALSE)
              IN [pos |-> IF IsSome(r.idx) THEN Some(fs[Unwrap(r.idx)].start)
                          ELSE None,
                  ovf |-> r.ovf]
    ELSE IF trx.strand = "Reverse"
    THEN LET i == first_of_kind(fs, 1, "StartCodon")
         IN [pos |-> IF IsSome(i) THEN Some(fs[Unwrap(i)].end) ELSE None,
             ovf |-> FALSE]
    ELSE IF incl_stop
    THEN LET i == first_of_kind(fs, 1, "CDS")
         IN [pos |-> IF IsSome(i) THEN Some(fs[Unwrap(i)].end) ELSE None,
             ovf |-> FALSE]
    ELSE [pos |-> None, ovf |-> FALSE]

\* Transcript::coding_coord: Ok(Option<(u64, u64)>) or a panic
coding_coord(trx, incl_stop, oc) ==
    LET s == coding_start_coord(trx, incl_stop)
        e == coding_end_coord(trx, incl_stop)
    IN IF oc /\ (s.ovf \/ e.ovf) THEN Panic
       ELSE IF IsSome(s.pos) /\ IsSome(e.pos)
       THEN Ok(Some(<<Unwrap(s.pos), Unwrap(e.pos)>>))
       ELSE Ok(None)

\* EBuilder::new(seq_name, start, end) followed by the chained setters
EBuilder_new(seq_name, start, end) ==
    [builder |-> "EBuilder",
     seq_name |-> seq_name, start |-> start, end |-> end, strand |-> None,
     strand_char |-> None, id |-> None, transcript_id |-> None,
     gene_id |-> None, attributes |-> << >>, features |-> << >>]

\* EBuilder::build on the builder b
EBuilder_build(b) ==
    LET interval == coord_to_interval(b.start, b.end)
        strand == resolve_strand_input(b.strand, b.strand_char)
    IN IF ~interval.ok THEN Err(interval.err)
       ELSE IF ~strand.ok THEN Err(strand.err)
       ELSE Ok([seq_name |-> b.seq_name, start |-> b.start, end |-> b.end,
                strand |-> strand.val, id |-> b.id,
                transcript_id |-> b.transcript_id, gene_id |-> b.gene_id,
                attributes |-> b.attributes, features |-> b.features])

\* GBuilder::new(seq_name, start, end) followed by the chained setters;
\* transcript_coords: Option of the insertion-ordered map, a sequence of
\* [key, trx_coord, exon_coords, coding_coord]
GBuilder_new(seq_name, start, end) ==
    [builder |-> "GBuilder",
     seq_name |-> seq_name, start |-> start, end |-> end, strand |-> None,
     strand_char |-> None, id |-> None, transcripts |-> None,
     transcript_coords |-> None, transcript_coding_incl_stop |-> FALSE]

\* the loop of resolve_transcripts_input over trxs_coords; trxs: the map
\* built so far, a sequence of [key, trx].  The error
\* TranscriptNotFullyEnveloped(tid) carries the transcript id in val.
RECURSIVE build_transcripts(_, _, _, _, _, _)

\* `let _ = trxs.insert(trx_id, trx)` once the transcript trx is built
insert_transcript(b, strand, trxs_coords, i, trxs, oc, trx) ==
    IF trx.status # "Ok" THEN trx
    ELSE build_transcripts(
           b, strand, trxs_coords, i + 1,
           Append(trxs, [key |-> trxs_coords[i].key, trx |-> trx.val]), oc)

build_transcripts(b, strand, trxs_coords, i, trxs, oc) ==
    IF i > Len(trxs_coords) THEN Ok(trxs)
    ELSE LET e == trxs_coords[i] IN
         IF e.trx_coord[1] < b.start \/ e.trx_coord[2] > b.end
         THEN [Err("TranscriptNotFullyEnveloped") EXCEPT !.val = Some(e.key)]
         ELSE insert_transcript(
                b, strand, trxs_coords, i, trxs, oc,
                TBuilder_build(
                  [TBuilder_new(b.seq_name, e.trx_coord[1], e.trx_coord[2])
                     EXCEPT !.strand = Some(strand), !.id = Some(e.key),
                            !.exon_coords = Some(e.exon_coords),
                            !.coding_coord = e.coding_coord,
                            !.coding_incl_stop = b.transcript_coding_incl_stop,
                            !.gene_id = b.id],
                  oc))

resolve_transcripts_input(b, strand, oc) ==
    IF IsSome(b.transcripts) THEN Ok(Unwrap(b.transcripts))
    ELSE IF ~IsSome(b.transcript_coords) THEN Ok(<< >>)
    ELSE build_transcripts(b, strand, Unwrap(b.transcript_coords), 1, << >>,
                           oc)

\* the end of GBuilder::build: the gene around the resolved transcripts
GBuilder_finish(b, strand, transcripts) ==
    IF transcripts.status # "Ok" THEN transcripts
    ELSE Ok([seq_name |-> b.seq_name, start |-> b.start, end |-> b.end,
             strand |-> strand, id |-> b.id,
             transcripts |-> transcripts.val])

\* GBuilder::build on the builder b
GBuilder_build(b, oc) ==
    LET interval == coord_to_interval(b.start, b.end)
        strand == resolve_strand_input(b.strand, b.strand_char)
    IN IF ~interval.ok THEN Err(interval.err)
       ELSE IF ~strand.ok THEN Err(strand.err)
       ELSE GBuilder_finish(b, strand.val,
                            resolve_transcripts_input(b, strand.val, oc))

\* ------------------------------------------------------------- mutators
\* Exon::set_transcript_id / Exon::set_gene_id
Exon_set_transcript_id(exon, id) == [exon EXCEPT !.transcript_id = id]
Exon_set_gene_id(exon, id) == [exon EXCEPT !.gene_id = id]

\* Transcript::set_id
Transcript_set_id(trx, id) ==
    [trx EXCEPT !.exons = [k \in DOMAIN trx.exons |->
                             Exon_set_transcript_id(trx.exons[k], id)],
                !.id = id]

\* a variant of Transcript::set_gene_id that leaves the exons alone
Transcript_set_gene_id_shallow(trx, gene_id) ==
    [trx EXCEPT !.gene_id = gene_id]

\* Transcript::set_gene_id
Transcript_set_gene_id(trx, gene_id) ==
    [trx EXCEPT !.exons = [k \in DOMAIN trx.exons |->
                             Exon_set_gene_id(trx.exons[k], gene_id)],
                !.gene_id = gene_id]

\* impl_common!(Transcript): set_seq_name, set_strand and set_attributes
\* assign the transcript's own field
Transcript_set_seq_name(trx, name) == [trx EXCEPT !.seq_name = name]
Transcript_set_strand(trx, strand) == [trx EXCEPT !.strand = strand]
Transcript_set_attributes(trx, attributes) ==
    [trx EXCEPT !.attributes = attributes]

\* Gene::set_id: the loop calls transcript.set_id(id.clone())
Gene_set_id(gx, id) ==
    [gx EXCEPT !.transcripts =
                 [k \in DOMAIN gx.transcripts |->
                    [gx.transcripts[k] EXCEPT
                       !.trx = Transcript_set_id(gx.transcripts[k].trx, id)]],
               !.id = id]

\* ---------------------------------------------------------------- state
\* pc: "new" before build, "built" after; overflow_checks: the build
\* profile; input: the builder handed to build; result: what build
\* returned, its value updated in place by the mutators; last: the last
\* operation and its argument
NoResult == [status |-> "None", err |-> "", val |-> << >>]

Init ==
    /\ pc = "new"
    /\ overflow_checks \in BOOLEAN
    /\ input = TBuilder_new("chrT", 0, 0)
    /\ result = NoResult
    /\ last = [op |-> "new", arg |-> None]
    /\ rows = << >>
    /\ row_pos = 1
    /\ yielded = << >>

\* b.build() for the transcript builder b
TBuild(b) ==
    /\ pc = "new"
    /\ input' = b
    /\ result' = TBuilder_build(b, overflow_checks)
    /\ pc' = "built"
    /\ last' = [op |-> "TBuilder.build", arg |-> None]
    /\ UNCHANGED <<overflow_checks, stream_vars>>

\* ------------------------------------------- inference specification
Coords == 0..MaxCoord
Pairs == {c \in Coords \X Coords : c[1] < c[2]}

\* exon coordinate lists as a refFlat row carries them: ascending, no two
\* exons overlapping
ExonCoordLists ==
    UNION {{ec \in [1..k -> Pairs] :
              \A i \in 1..(k - 1) : ec[i][2] <= ec[i + 1][1]} :
           k \in 1..MaxExons}

\* TBuilder::new(..).strand(..).id(..).gene_id(..).coords(..)
\*     .coding_incl_stop(..)
BuildTranscript ==
    /\ pc = "new"
    /\ \E ec \in ExonCoordLists, cc \in {None} \cup {Some(c) : c \in Pairs},
          strand \in Strands, incl_stop \in BOOLEAN :
        TBuild([TBuilder_new("chrT", ec[1][1], ec[Len(ec)][2]) EXCEPT
                  !.strand = Some(strand), !.id = Some("t1"),
                  !.gene_id = Some("g1"), !.exon_coords = Some(ec),
                  !.coding_coord = cc, !.coding_incl_stop = incl_stop])

Next == BuildTranscript

Spec == Init /\ [][Next]_vars

\* ------------------------------------------------- builder specification
CoordsApi == 0..MaxCoordApi
AllPairsApi == CoordsApi \X CoordsApi
Ids == {None, Some("a"), Some("b")}
StrandInputs == {None} \cup {Some(st) : st \in Strands}
StrandCharInputs == {None} \cup {Some(c) : c \in StrandChars \cup {"w"}}

\* exon coordinates of any order and shape, at most two of them
ExonCoordListsApi ==
    {<< >>} \cup {<<c>> : c \in AllPairsApi}
            \cup {<<c, d>> : c \in AllPairsApi, d \in AllPairsApi}

\* entries of a transcript_coords map: the transcript in one exon, or in
\* its first and last base when it is long enough
TrxCoordEntries(key) ==
    {[key |-> key, trx_coord |-> c, exon_coords |-> << c >>,
      coding_coord |-> None] : c \in AllPairsApi}
    \cup
    {[key |-> key, trx_coord |-> c,
      exon_coords |-> << <<c[1], c[1] + 1>>, <<c[2] - 1, c[2]>> >>,
      coding_coord |-> None] : c \in {d \in AllPairsApi : d[2] - d[1] >= 3}}

TrxCoordMaps ==
    {<< >>} \cup {<<e>> : e \in TrxCoordEntries("t1")}
            \cup {<<e, f>> : e \in TrxCoordEntries("t1"),
                             f \in TrxCoordEntries("t2")}

\* MultiMap attributes, as a sequence of entries: none, or one inserted by
\* EBuilder::attribute
AttributeInputs == {<< >>, << [key |-> "name", value |-> "ex1"] >>}

\* sub-features handed to EBuilder::features: none, or one feature
FeatureInputs == {<< >>, << feat(1, 2, "UTR") >>}

\* EBuilder::new(..).strand(..).strand_char(..).attribute(..).features(..)
\* .build()
BuildExon ==
    /\ pc = "new"
    /\ \E c \in AllPairsApi, strand \in StrandInputs,
          strand_char \in StrandCharInputs, attributes \in AttributeInputs,
          features \in FeatureInputs :
         LET b == [EBuilder_new("chrT", c[1], c[2]) EXCEPT
                     !.strand = strand, !.strand_char = strand_char,
                     !.attributes = attributes, !.features = features]
         IN /\ input' = b
            /\ result' = EBuilder_build(b)
    /\ pc' = "built"
    /\ last' = [op |-> "EBuilder.build", arg |-> None]
    /\ UNCHANGED <<overflow_checks, stream_vars>>

\* TBuilder::new(..) with any of strand, id, gene_id and coords, then build
BuildSmallTranscript ==
    /\ pc = "new"
    /\ \E c \in AllPairsApi,
          strand \in {None, Some("Forward"), Some("Reverse")},
          id \in {None, Some("t1")}, gene_id \in {None, Some("g1")},
          exon_coords \in {None} \cup {Some(ec) : ec \in ExonCoordListsApi} :
        TBuild([TBuilder_new("chrT", c[1], c[2]) EXCEPT
                  !.strand = strand, !.id = id, !.gene_id = gene_id,
                  !.exon_coords = exon_coords])

\* transcripts with a coding region, as read from a refFlat row: one or two
\* exons over the whole coordinate range
CodingExonListsApi ==
    {<< <<0, MaxCoord>> >>, << <<0, 3>>, <<4, MaxCoord>> >>}
CodingPairsApi == {<<1, 4>>, <<3, MaxCoord - 1>>}

\* TBuilder::new(..).coords(exon_coords, Some(coding)) with any of strand,
\* id and gene_id, then build
BuildCodingTranscript ==
    /\ pc = "new"
    /\ \E exon_coords \in CodingExonListsApi, coding \in CodingPairsApi,
          strand \in {Some("Forward"), Some("Reverse")},
          id \in {None, Some("t1")}, gene_id \in {None, Some("g1")},
          incl_stop \in BOOLEAN :
        TBuild([TBuilder_new("chrT", 0, MaxCoord) EXCEPT
                  !.strand = strand, !.id = id, !.gene_id = gene_id,
                  !.exon_coords = Some(exon_coords),
                  !.coding_coord = Some(coding),
                  !.coding_incl_stop = incl_stop])

\* an exon made beforehand by EBuilder::new("chrT", c[1], c[2])
\* .strand(Strand::Forward).build()
PremadeExon(c) ==
    EBuilder_build([EBuilder_new("chrT", c[1], c[2]) EXCEPT
                      !.strand = Some("Forward")]).val

\* lists of one or two exons made beforehand, in any order
PremadeExonLists ==
    LET valid == {c \in AllPairsApi : c[1] <= c[2]}
    IN {<< PremadeExon(c) >> : c \in valid}
       \cup {<< PremadeExon(c), PremadeExon(d) >> : c \in valid, d \in valid}

\* what may be supplied next to exons made beforehand: exon coordinates,
\* a coding coordinate and coding_incl_stop
PremadeExtras ==
    {[exon_coords |-> None, coding |-> None, incl_stop |-> FALSE],
     [exon_coords |-> Some(<< <<0, 1>> >>), coding |-> None, incl_stop |-> FALSE],
     [exon_coords |-> None, coding |-> Some(<<0, 3>>), incl_stop |-> FALSE],
     [exon_coords |-> Some(<< <<2, 1>> >>), coding |-> Some(<<0, 3>>), incl_stop |-> TRUE]}

\* TBuilder::new(..).strand(..).exons(exons), with or without exon
\* coordinates, a coding coordinate and coding_incl_stop as well, then
\* build
BuildPremadeTranscript ==
    /\ pc = "new"
    /\ \E c \in AllPairsApi, exons \in PremadeExonLists,
          id \in {None, Some("t1")}, x \in PremadeExtras :
        TBuild([TBuilder_new("chrT", c[1], c[2]) EXCEPT
                  !.strand = Some("Forward"), !.id = id,
                  !.exons = Some(exons), !.exon_coords = x.exon_coords,
                  !.coding_coord = x.coding,
                  !.coding_incl_stop = x.incl_stop])

\* an exon made beforehand with one CDS sub-feature over the whole exon:
\* EBuilder::new("chrT", c[1], c[2]).strand(strand)
\* .feature(ExonFeature::new(c[1]..c[2], CDS)).build()
AnnotatedExon(c, strand) ==
    EBuilder_build([EBuilder_new("chrT", c[1], c[2]) EXCEPT
                      !.strand = Some(strand),
                      !.features = << feat(c[1], c[2], "CDS") >>]).val

\* lists of annotated exons made beforehand, in any order
AnnotatedExonLists(strand) ==
    {<< AnnotatedExon(<<0, 1>>, strand) >>,
     << AnnotatedExon(<<0, 1>>, strand), AnnotatedExon(<<2, 3>>, strand) >>,
     << AnnotatedExon(<<2, 3>>, strand), AnnotatedExon(<<0, 1>>, strand) >>}

\* TBuilder::new("chrT", 0, 3).strand(strand).exons(exons).build() with
\* exons that carry sub-features (the path of annotated input)
BuildAnnotatedTranscript ==
    /\ pc = "new"
    /\ \E strand \in Strands :
         \E exons \in AnnotatedExonLists(strand) :
            TBuild([TBuilder_new("chrT", 0, 3) EXCEPT
                      !.strand = Some(strand), !.exons = Some(exons)])

\* two exon coordinates in any order, also overlapping or equal
OverlapExonLists ==
    LET valid == {c \in AllPairsApi : c[1] < c[2]}
    IN {<<c, d>> : c \in valid, d \in valid}

\* TBuilder::new(..).strand(..).coords(exon_coords, Some(coding))
\* .coding_incl_stop(..).build() over the first start and the last end of
\* the sorted exon coordinates
BuildOverlapTranscript ==
    /\ pc = "new"
    /\ \E ec \in OverlapExonLists,
          coding \in {c \in AllPairsApi : c[1] < c[2]},
          strand \in Strands, incl_stop \in BOOLEAN :
        TBuild([TBuilder_new("chrT", sort_coords(ec)[1][1],
                             sort_coords(ec)[2][2]) EXCEPT
                  !.strand = Some(strand), !.exon_coords = Some(ec),
                  !.coding_coord = Some(coding),
                  !.coding_incl_stop = incl_stop])

\* TBuilder::new(..) with any of strand and strand_char, with or without
\* one exon over the transcript, then build
BuildStrandTranscript ==
    /\ pc = "new"
    /\ \E c \in AllPairsApi, strand \in StrandInputs,
          strand_char \in StrandCharInputs, with_exon \in BOOLEAN :
        TBuild([TBuilder_new("chrT", c[1], c[2]) EXCEPT
                  !.strand = strand, !.strand_char = strand_char,
                  !.exon_coords = IF with_exon THEN Some(<< c >>) ELSE None])

\* GBuilder::new(..) with any of strand and strand_char, then build
BuildStrandGene ==
    /\ pc = "new"
    /\ \E c \in AllPairsApi, strand \in StrandInputs,
          strand_char \in StrandCharInputs :
         LET b == [GBuilder_new("chrT", c[1], c[2]) EXCEPT
                     !.strand = strand, !.strand_char = strand_char]
         IN /\ input' = b
            /\ result' = GBuilder_build(b, overflow_checks)
    /\ pc' = "built"
    /\ last' = [op |-> "GBuilder.build", arg |-> None]
    /\ UNCHANGED <<overflow_checks, stream_vars>>

\* a transcript made beforehand by TBuilder::new("chrT", c[1], c[2])
\* .strand(Strand::Forward).id("t1").coords(vec![c], None).build()
PremadeTranscript(c) ==
    TBuilder_build([TBuilder_new("chrT", c[1], c[2]) EXCEPT
                      !.strand = Some("Forward"), !.id = Some("t1"),
                      !.exon_coords = Some(<< c >>)], FALSE).val

\* GBuilder::new(..).strand(..).transcripts(map) with any id, the map
\* holding one transcript made beforehand, then build
BuildGeneFromTranscripts ==
    /\ pc = "new"
    /\ \E c \in AllPairsApi, d \in {e \in AllPairsApi : e[1] < e[2]},
          id \in {None, Some("g1")} :
         LET b == [GBuilder_new("chrT", c[1], c[2]) EXCEPT
                     !.strand = Some("Forward"), !.id = id,
                     !.transcripts =
                        Some(<< [key |-> "t1", trx |-> PremadeTranscript(d)] >>)]
         IN /\ input' = b
            /\ result' = GBuilder_build(b, overflow_checks)
    /\ pc' = "built"
    /\ last' = [op |-> "GBuilder.build", arg |-> None]
    /\ UNCHANGED <<overflow_checks, stream_vars>>

\* GBuilder::new(..) with any of strand, id and transcript_coords, then build
BuildGene ==
    /\ pc = "new"
    /\ \E c \in AllPairsApi,
          strand \in {None, Some("Forward"), Some("Reverse")},
          id \in {None, Some("g1")},
          coords \in {None} \cup {Some(m) : m \in TrxCoordMaps} :
         LET b == [GBuilder_new("chrT", c[1], c[2]) EXCEPT
                     !.strand = strand, !.id = id,
                     !.transcript_coords = coords]
         IN /\ input' = b
            /\ result' = GBuilder_build(b, overflow_checks)
    /\ pc' = "built"
    /\ last' = [op |-> "GBuilder.build", arg |-> None]
    /\ UNCHANGED <<overflow_checks, stream_vars>>

HasBuilt(builder) ==
    pc = "built" /\ input.builder = builder /\ result.status = "Ok"

SetTranscriptId ==
    /\ HasBuilt("TBuilder")
    /\ \E id \in Ids :
         /\ result' = [result EXCEPT !.val = Transcript_set_id(@, id)]
         /\ last' = [op |-> "Transcript.set_id", arg |-> id]
    /\ UNCHANGED <<pc, overflow_checks, input, stream_vars>>

SetTranscriptGeneId ==
    /\ HasBuilt("TBuilder")
    /\ \E id \in Ids :
         /\ result' = [result EXCEPT !.val = Transcript_set_gene_id(@, id)]
         /\ last' = [op |-> "Transcript.set_gene_id", arg |-> id]
    /\ UNCHANGED <<pc, overflow_checks, input, stream_vars>>

SetGeneId ==
    /\ HasBuilt("GBuilder")
    /\ \E id \in Ids :
         /\ result' = [result EXCEPT !.val = Gene_set_id(@, id)]
         /\ last' = [op |-> "Gene.set_id", arg |-> id]
    /\ UNCHANGED <<pc, overflow_checks, input, stream_vars>>

NextApi ==
    \/ BuildExon
    \/ BuildSmallTranscript
    \/ BuildCodingTranscript
    \/ BuildStrandTranscript
    \/ BuildPremadeTranscript
    \/ BuildAnnotatedTranscript
    \/ BuildOverlapTranscript
    \/ BuildStrandGene
    \/ BuildGene
    \/ BuildGeneFromTranscripts
    \/ SetTranscriptId
    \/ SetTranscriptGeneId
    \/ SetGeneId

SpecApi == Init /\ [][NextApi]_vars

\* ------------------------------------------------ mutator specification
SeqNames == {"chrT", "chrU"}

\* TBuilder::new("chrT", 0, MaxCoordApi).strand(strand).coords(..).build()
\* with one exon, or with an exon on the first and on the last base
BuildWholeTranscript ==
    /\ pc = "new"
    /\ \E strand \in Strands,
          ec \in {<< <<0, MaxCoordApi>> >>,
                  << <<0, 1>>, <<MaxCoordApi - 1, MaxCoordApi>> >>} :
        TBuild([TBuilder_new("chrT", 0, MaxCoordApi) EXCEPT
                  !.strand = Some(strand), !.exon_coords = Some(ec)])

SetTranscriptSeqName ==
    /\ HasBuilt("TBuilder")
    /\ \E name \in SeqNames :
         /\ result' = [result EXCEPT !.val = Transcript_set_seq_name(@, name)]
         /\ last' = [op |-> "Transcript.set_seq_name", arg |-> name]
    /\ UNCHANGED <<pc, overflow_checks, input, stream_vars>>

SetTranscriptStrand ==
    /\ HasBuilt("TBuilder")
    /\ \E strand \in Strands :
         /\ result' = [result EXCEPT !.val = Transcript_set_strand(@, strand)]
         /\ last' = [op |-> "Transcript.set_strand", arg |-> strand]
    /\ UNCHANGED <<pc, overflow_checks, input, stream_vars>>

\* set_attributes returns the attributes it replaces
SetTranscriptAttributes ==
    /\ HasBuilt("TBuilder")
    /\ \E attributes \in AttributeInputs :
         /\ result' = [result EXCEPT
                         !.val = Transcript_set_attributes(@, attributes)]
         /\ last' = [op |-> "Transcript.set_attributes",
                     arg |-> result.val.attributes]
    /\ UNCHANGED <<pc, overflow_checks, input, stream_vars>>

NextMut ==
    \/ BuildWholeTranscript
    \/ SetTranscriptId
    \/ SetTranscriptGeneId
    \/ SetTranscriptSeqName
    \/ SetTranscriptStrand
    \/ SetTranscriptAttributes

SpecMut == Init /\ [][NextMut]_vars

\* ------------------------------------------------ refFlat genes stream
\* Rows of a refFlat input, reduced to the gene and transcript identifier.
GeneIds == {"g1", "g2"}
TranscriptIds == <<"t1", "t2", "t3", "t4", "t5", "t6">>

RowLists ==
    UNION {{[k \in 1..n |-> [gene_id |-> g[k],
                             transcript_id |-> TranscriptIds[k]]] :
              g \in [1..n -> GeneIds]} : n \in 0..MaxRows}

\* RefFlatReader::from_reader(rows) followed by genes_stream()
InitStream ==
    /\ pc = "stream"
    /\ overflow_checks \in BOOLEAN
    /\ input = TBuilder_new("chrT", 0, 0)
    /\ result = NoResult
    /\ last = [op |-> "genes_stream", arg |-> None]
    /\ rows \in RowLists
    /\ row_pos = 1
    /\ yielded = << >>

\* variant: every row becomes a gene of its own
run_end_one_row(rs, j, gid) == j

\* the first row from j on that does not carry the gene identifier gid
RECURSIVE run_end(_, _, _)
run_end(rs, j, gid) ==
    IF j > Len(rs) \/ rs[j].gene_id # gid THEN j
    ELSE run_end(rs, j + 1, gid)

\* the gene of the rows from..(to - 1): its transcripts in row order
group_gene(rs, from, to) ==
    [id |-> rs[from].gene_id,
     transcripts |-> [k \in 1..(to - from) |-> rs[from + k - 1].transcript_id]]

\* RefFlatGenesStream::next with rows left: the rows that follow and share
\* the gene identifier of the next row are consumed into one gene
GenesNext ==
    /\ pc = "stream"
    /\ row_pos <= Len(rows)
    /\ LET to == run_end(rows, row_pos + 1, rows[row_pos].gene_id)
       IN /\ yielded' = Append(yielded, Some(group_gene(rows, row_pos, to)))
          /\ row_pos' = to
    /\ last' = [op |-> "genes.next", arg |-> None]
    /\ UNCHANGED <<pc, overflow_checks, input, result, rows>>

NoneCalls == Cardinality({k \in DOMAIN yielded : yielded[k] = None})

\* RefFlatGenesStream::next with no row left returns None
GenesNextExhausted ==
    /\ pc = "stream"
    /\ row_pos > Len(rows)
    /\ NoneCalls < MaxNoneCalls
    /\ yielded' = Append(yielded, None)
    /\ last' = [op |-> "genes.next", arg |-> None]
    /\ UNCHANGED <<pc, overflow_checks, input, result, rows, row_pos>>

NextStream == GenesNext \/ GenesNextExhausted

SpecStream == InitStream /\ [][NextStream]_vars

\* ----------------------------------------------------------- properties
\* build returned Ok(transcript) for a builder given exon coordinates
TranscriptBuilt ==
    /\ pc = "built"
    /\ input.builder = "TBuilder"
    /\ result.status = "Ok"
    /\ ~IsSome(input.exons)
    /\ IsSome(input.exon_coords)

\* ... on the Forward or Reverse strand, with a coding coordinate
CodingBuilt ==
    /\ TranscriptBuilt
    /\ IsSome(input.coding_coord)
    /\ result.val.strand \in {"Forward", "Reverse"}

RECURSIVE SumSpans(_, _)
SumSpans(fs, kind) ==
    IF fs = << >> THEN 0
    ELSE (IF fs[1].kind = kind THEN span(fs[1]) ELSE 0)
         + SumSpans(Tail(fs), kind)

KindSpan(trx, kind) == SumSpans(Flatten(trx.exons), kind)

\* C1: in every Forward or Reverse transcript that build returns Ok for,
\* given exon coordinates and a coding coordinate, the spans of the
\* StopCodon sub-features sum to exactly 3.
C1_StopCodonSpan ==
    CodingBuilt => KindSpan(result.val, "StopCodon") = 3

\* C2: in every such transcript the spans of the StartCodon sub-features
\* sum to exactly 3.
C2_StartCodonSpan ==
    CodingBuilt => KindSpan(result.val, "StartCodon") = 3

\* number of exonic bases in [lo, hi), for exons given as (start, end) pairs
RECURSIVE ExonicBases(_, _, _)
ExonicBases(coords, lo, hi) ==
    IF coords = << >> THEN 0
    ELSE LET a == Max(coords[1][1], lo)
             b == Min(coords[1][2], hi)
         IN (IF a < b THEN b - a ELSE 0) + ExonicBases(Tail(coords), lo, hi)

ExonIntervals(trx) ==
    [i \in DOMAIN trx.exons |-> <<trx.exons[i].start, trx.exons[i].end>>]

InputCoding == Unwrap(input.coding_coord)
InputExons == sort_coords(Unwrap(input.exon_coords))

\* C3: a Forward or Reverse transcript built from exon coordinates and a
\* coding coordinate C that includes the stop codon gives C back from
\* coding_coord(true), and its exons are the input coordinates in
\* ascending order.
C3_CodingCoordRoundTrip ==
    (CodingBuilt /\ input.coding_incl_stop) =>
        /\ coding_coord(result.val, TRUE, overflow_checks)
             = Ok(Some(InputCoding))
        /\ ExonIntervals(result.val) = InputExons

\* the builder holds valid exon coordinates and a coding coordinate that
\* includes a whole stop codon: both ends lie in exons and the region holds
\* at least three exonic bases
NormalizableInput ==
    /\ pc = "built"
    /\ input.builder = "TBuilder"
    /\ IsSome(input.exon_coords)
    /\ IsSome(input.coding_coord)
    /\ input.coding_incl_stop
    /\ IsSome(input.strand)
    /\ Unwrap(input.strand) \in {"Forward", "Reverse"}
    /\ Unwrap(input.exon_coords) # << >>
    /\ \A i \in DOMAIN Unwrap(input.exon_coords) :
         Unwrap(input.exon_coords)[i][1] < Unwrap(input.exon_coords)[i][2]
    /\ InputCoding[1] < InputCoding[2]
    /\ \E i \in DOMAIN InputExons :
         InputExons[i][1] <= InputCoding[1] /\ InputCoding[1] < InputExons[i][2]
    /\ \E i \in DOMAIN InputExons :
         InputExons[i][1] < InputCoding[2] /\ InputCoding[2] <= InputExons[i][2]
    /\ ExonicBases(InputExons, InputCoding[1], InputCoding[2]) >= 3

\* the normalisation left no codon base unstripped and moved the stop-codon
\* side of the coding coordinate over exactly three exonic bases
StripsThreeExonicBases(adj) ==
    /\ adj.codon_rem = 0
    /\ IF Unwrap(input.strand) = "Forward"
       THEN /\ adj.start = InputCoding[1]
            /\ adj.end <= InputCoding[2]
            /\ ExonicBases(InputExons, adj.end, InputCoding[2]) = 3
       ELSE /\ adj.end = InputCoding[2]
            /\ adj.start >= InputCoding[1]
            /\ ExonicBases(InputExons, InputCoding[1], adj.start) = 3

\* C4: normalisation of a coding coordinate that includes the stop codon
\* removes exactly three exonic bases from the stop-codon side, across
\* introns when the stop codon is split, and ends with codon_rem == 0.
C4_NormalizationStripsStop ==
    NormalizableInput =>
        StripsThreeExonicBases(
          adjust_coding_coord(InputCoding[1], InputCoding[2],
                              Unwrap(input.strand), InputExons))

\* C5: TBuilder.build never aborts: it returns Ok or Err.
C5_BuildNeverAborts ==
    (pc = "built" /\ input.builder = "TBuilder") => result.status # "Panic"

\* the CDS sub-features in transcription order
CdsPieces(trx) ==
    LET cds == SelectSeq(Flatten(trx.exons), LAMBDA fx : fx.kind = "CDS")
    IN IF trx.strand = "Reverse" THEN Reversed(cds) ELSE cds

RECURSIVE SpanOfFirst(_, _)
SpanOfFirst(fs, n) ==
    IF n = 0 THEN 0 ELSE span(fs[n]) + SpanOfFirst(fs, n - 1)

\* C6: the frame of each CDS piece, in transcription order, is the number
\* of bases to skip at its 5' end to reach the next codon boundary:
\* (3 - (span of the preceding pieces mod 3)) mod 3.
C6_CdsFrames ==
    CodingBuilt =>
        \A k \in DOMAIN CdsPieces(result.val) :
            CdsPieces(result.val)[k].frame
              = Some((3 - (SpanOfFirst(CdsPieces(result.val), k - 1) % 3)) % 3)

\* the two coordinates agree on the start-codon side and lie three exonic
\* bases apart on the stop-codon side
DifferByStopCodon(trx, incl, excl) ==
    IF trx.strand = "Forward"
    THEN /\ incl[1] = excl[1]
         /\ excl[2] <= incl[2]
         /\ ExonicBases(ExonIntervals(trx), excl[2], incl[2]) = 3
    ELSE /\ incl[2] = excl[2]
         /\ incl[1] <= excl[1]
         /\ ExonicBases(ExonIntervals(trx), incl[1], excl[1]) = 3

CodingCoordsDiffer(trx, incl, excl) ==
    /\ incl.status = "Ok" /\ IsSome(incl.val)
    /\ excl.status = "Ok" /\ IsSome(excl.val)
    /\ DifferByStopCodon(trx, Unwrap(incl.val), Unwrap(excl.val))

\* C9: coding_coord(true) and coding_coord(false) of a Forward or Reverse
\* transcript built with a coding region agree on the start-codon side and
\* differ by exactly three exonic bases on the stop-codon side.
C9_InclStopDifference ==
    CodingBuilt =>
        CodingCoordsDiffer(result.val,
                           coding_coord(result.val, TRUE, overflow_checks),
                           coding_coord(result.val, FALSE, overflow_checks))

\* every exon of every transcript of the gene carries the gene id
GeneIdEverywhere(gx, id) ==
    /\ gx.id = id
    /\ \A k \in DOMAIN gx.transcripts :
         /\ gx.transcripts[k].trx.gene_id = id
         /\ \A e \in DOMAIN gx.transcripts[k].trx.exons :
              gx.transcripts[k].trx.exons[e].gene_id = id

\* C7: after Gene.set_id(x) on a built gene, the gene's id is x, every
\* transcript's gene_id is x and every exon of every transcript has
\* gene_id x.
C7_GeneSetIdPropagates ==
    (HasBuilt("GBuilder") /\ last.op = "Gene.set_id") =>
        GeneIdEverywhere(result.val, last.arg)

\* C8: a transcript built from exon coordinates keeps, through any sequence
\* of Transcript.set_id and Transcript.set_gene_id calls (None included),
\* every exon's transcript_id equal to the transcript's id and every exon's
\* gene_id equal to the transcript's gene_id.
C8_ExonIdsFollowTranscript ==
    (HasBuilt("TBuilder") /\ ~IsSome(input.exons)
     /\ IsSome(input.exon_coords)) =>
        \A e \in DOMAIN result.val.exons :
            /\ result.val.exons[e].transcript_id = result.val.id
            /\ result.val.exons[e].gene_id = result.val.gene_id

\* a transcript with inferred features whose id was set to a value and whose
\* gene_id was then set to None
C8_Witness ==
    /\ HasBuilt("TBuilder")
    /\ IsSome(input.exon_coords)
    /\ IsSome(input.coding_coord)
    /\ input.gene_id = Some("g1")
    /\ Len(result.val.exons) = 2
    /\ result.val.exons[2].features # << >>
    /\ result.val.id = Some("b")
    /\ last = [op |-> "Transcript.set_gene_id", arg |-> None]
    /\ result.val.exons[2].gene_id = None
    /\ result.val.exons[2].transcript_id = Some("b")

\* C10 as stated: a build with start >= end, start == end included, fails
\* with InvalidInterval.
C10_EmptyIntervalFails ==
    (pc = "built" /\ input.start >= input.end) =>
        result = Err("InvalidInterval")

\* C10: building an exon, transcript or gene with start > end fails with
\* InvalidInterval, also when the strand is unspecified; an exon or
\* transcript with start == end does not fail with InvalidInterval.
C10_InvalidIntervalFails ==
    pc = "built" =>
        /\ input.start > input.end => result = Err("InvalidInterval")
        /\ (input.start = input.end /\ input.builder # "GBuilder")
             => result # Err("InvalidInterval")

\* a build with start > end and neither strand nor strand character
C10_Witness ==
    /\ pc = "built"
    /\ input.start > input.end
    /\ input.strand = None
    /\ input.strand_char = None
    /\ result = Err("InvalidInterval")


\* the strand a strand character stands for, with "" for any other character
CharStrand(c) ==
    IF c \in {"+", "f", "F"} THEN "Forward"
    ELSE IF c \in {"-", "r", "R"} THEN "Reverse"
    ELSE IF c \in {".", "?"} THEN "Unknown"
    ELSE ""

ExpectedStrand(strand, strand_char) ==
    IF strand = None /\ strand_char = None
    THEN [err |-> "UnspecifiedStrand", val |-> ""]
    ELSE IF strand_char = None
    THEN [err |-> "", val |-> Unwrap(strand)]
    ELSE IF CharStrand(Unwrap(strand_char)) = ""
    THEN [err |-> "InvalidStrandChar", val |-> ""]
    ELSE IF strand = None
    THEN [err |-> "", val |-> CharStrand(Unwrap(strand_char))]
    ELSE IF CharStrand(Unwrap(strand_char)) = Unwrap(strand)
    THEN [err |-> "", val |-> Unwrap(strand)]
    ELSE [err |-> "ConflictingStrand", val |-> ""]

StrandErrors == {"UnspecifiedStrand", "InvalidStrandChar", "ConflictingStrand"}

StrandResolvedAs(exp) ==
    IF exp.err # ""
    THEN result = Err(exp.err)
    ELSE /\ result.err \notin StrandErrors
         /\ result.status = "Ok" => result.val.strand = exp.val
         /\ input.builder = "EBuilder" => result.status = "Ok"

CodingInput ==
    /\ pc = "built"
    /\ input.builder = "TBuilder"
    /\ ~IsSome(input.exons)
    /\ IsSome(input.exon_coords)
    /\ IsSome(input.coding_coord)
    /\ resolve_strand_input(input.strand, input.strand_char).ok
    /\ input.start <= input.end
    /\ Unwrap(input.exon_coords) # << >>
    /\ \A i \in DOMAIN Unwrap(input.exon_coords) :
         Unwrap(input.exon_coords)[i][1] < Unwrap(input.exon_coords)[i][2]

InputStrand == resolve_strand_input(input.strand, input.strand_char).val

\* the coding coordinate after normalisation
NormCoding ==
    IF input.coding_incl_stop
    THEN adjust_coding_coord(InputCoding[1], InputCoding[2], InputStrand,
                             InputExons)
    ELSE [start |-> InputCoding[1], end |-> InputCoding[2],
          codon_rem |-> 3, ovf |-> FALSE]

FirstStart == InputExons[1][1]
LastEnd == InputExons[Len(InputExons)][2]

\* the normalisation did not abort and the bounds, interval and envelope
\* checks pass for the normalised coding coordinate (c0, c1)
EnvelopeChecksPass(c0, c1, ovf) ==
    /\ ~(overflow_checks /\ ovf)
    /\ FirstStart = input.start
    /\ LastEnd = input.end
    /\ c0 < c1
    /\ c0 >= FirstStart
    /\ c1 <= LastEnd

\* with half-open exons [s, e): no exon holds the coding start c0, or no
\* exon holds the coding end c1
EndpointInIntron(c0, c1) ==
    \/ ~\E i \in DOMAIN InputExons :
          InputExons[i][1] <= c0 /\ c0 < InputExons[i][2]
    \/ ~\E i \in DOMAIN InputExons :
          InputExons[i][1] < c1 /\ c1 <= InputExons[i][2]

CodingInIntronReported(adj) ==
    (EnvelopeChecksPass(adj.start, adj.end, adj.ovf)
     /\ EndpointInIntron(adj.start, adj.end))
    => result = Err("CodingInIntron")

\* C13: when the earlier checks pass and, with half-open exons, the
\* normalised coding start or coding end lies in no exon, the build fails
\* with CodingInIntron.
C13_CodingInIntron ==
    CodingInput => CodingInIntronReported(NormCoding)

\* one exon holds the whole coding region (c0, c1) and the stop codon
\* next to it
SingleExonCoding(c0, c1) ==
    \E i \in DOMAIN InputExons :
        /\ InputExons[i][1] <= c0
        /\ c1 <= InputExons[i][2]
        /\ InputStrand = "Forward" => c1 + 3 <= InputExons[i][2]
        /\ InputStrand = "Reverse" => c0 - 3 >= InputExons[i][1]

CodingTooSmallReported(adj) ==
    (~adj.ovf /\ adj.end - adj.start < 3) =>
        /\ result.status # "Ok"
        /\ (EnvelopeChecksPass(adj.start, adj.end, adj.ovf)
            /\ SingleExonCoding(adj.start, adj.end))
           => result = Err("CodingTooSmall")

\* C14: a Forward or Reverse build whose normalised coding region has fewer
\* than 3 bases does not return Ok; when one exon holds the whole coding
\* region with room for the stop codon the error is CodingTooSmall.
C14_CodingTooSmall ==
    (CodingInput /\ InputStrand \in {"Forward", "Reverse"}) =>
        CodingTooSmallReported(NormCoding)

\* no room for the stop codon next to the coding region (c0, c1), over the
\* integers
NoStopCodonRoom(c0, c1) ==
    IF InputStrand = "Forward" THEN c1 + 3 > LastEnd
    ELSE IF InputStrand = "Reverse" THEN c0 - 3 < FirstStart
    ELSE c0 - 3 < FirstStart \/ c1 + 3 > LastEnd

CodingTooLargeReported(adj) ==
    (EnvelopeChecksPass(adj.start, adj.end, adj.ovf)
     /\ ~EndpointInIntron(adj.start, adj.end))
    => (result = Err("CodingTooLarge")
        <=> NoStopCodonRoom(adj.start, adj.end))

\* C15: after the interval, envelope and intron checks pass, the build
\* returns CodingTooLarge exactly when c1 + 3 > last_end (Forward),
\* c0 - 3 < first_start (Reverse) or either of the two (Unknown).
C15_CodingTooLarge ==
    CodingInput => CodingTooLargeReported(NormCoding)

\* the builder holds a non-empty list of valid exon coordinates, and the
\* build reaches the test of the exon bounds
ExonInput ==
    /\ pc = "built"
    /\ input.builder = "TBuilder"
    /\ ~IsSome(input.exons)
    /\ IsSome(input.exon_coords)
    /\ resolve_strand_input(input.strand, input.strand_char).ok
    /\ input.start <= input.end
    /\ Unwrap(input.exon_coords) # << >>
    /\ \A i \in DOMAIN Unwrap(input.exon_coords) :
         Unwrap(input.exon_coords)[i][1] < Unwrap(input.exon_coords)[i][2]
    /\ IsSome(input.coding_coord) => ~(overflow_checks /\ NormCoding.ovf)

MinExonStart ==
    CHOOSE m \in {Unwrap(input.exon_coords)[i][1] :
                    i \in DOMAIN Unwrap(input.exon_coords)} :
        \A i \in DOMAIN Unwrap(input.exon_coords) :
            m <= Unwrap(input.exon_coords)[i][1]

MaxExonEnd ==
    CHOOSE m \in {Unwrap(input.exon_coords)[i][2] :
                    i \in DOMAIN Unwrap(input.exon_coords)} :
        \A i \in DOMAIN Unwrap(input.exon_coords) :
            m >= Unwrap(input.exon_coords)[i][2]

\* C16: with a non-empty list of valid exon coordinates the build returns
\* UnmatchedExons if and only if the minimum exon start differs from the
\* transcript start or the maximum exon end differs from the transcript
\* end, overlapping and nested exons included.
C16_UnmatchedExons ==
    ExonInput =>
        (result = Err("UnmatchedExons")
         <=> (MinExonStart # input.start \/ MaxExonEnd # input.end))

\* C17 as stated: in every exon of an inferred transcript each sub-feature
\* ends at or before the start of the next one.
C17_FeaturesDisjoint ==
    TranscriptBuilt =>
        \A e \in DOMAIN result.val.exons :
            \A k \in 1..(Len(result.val.exons[e].features) - 1) :
                result.val.exons[e].features[k].end
                  <= result.val.exons[e].features[k + 1].start

\* C17: in every exon of an inferred transcript the sub-features are listed
\* in ascending order of their ends; they may overlap, as a StartCodon and
\* the CDS it opens do.
C17_FeaturesAscending ==
    TranscriptBuilt =>
        \A e \in DOMAIN result.val.exons :
            \A k \in 1..(Len(result.val.exons[e].features) - 1) :
                result.val.exons[e].features[k].end
                  <= result.val.exons[e].features[k + 1].end

\* a Forward single-exon transcript with all five sub-features, the
\* StartCodon inside the CDS
C17_Witness ==
    /\ TranscriptBuilt
    /\ result.val.strand = "Forward"
    /\ Len(result.val.exons) = 1
    /\ Len(result.val.exons[1].features) = 5
    /\ result.val.exons[1].features[2].kind = "StartCodon"
    /\ result.val.exons[1].features[3].kind = "CDS"
    /\ result.val.exons[1].features[2].start
         = result.val.exons[1].features[3].start
    /\ result.val.exons[1].features[2].end
         <= result.val.exons[1].features[3].end

\* every sub-feature of the exon lies in the exon's interval
FeaturesInExon(exon) ==
    \A k \in DOMAIN exon.features :
        /\ exon.start <= exon.features[k].start
        /\ exon.features[k].end <= exon.end

\* C18: every sub-feature of an exon returned by a successful build (an
\* exon built by EBuilder with sub-features, or any exon of a transcript
\* built by TBuilder) lies in the exon's interval.
C18_FeaturesInExon ==
    /\ HasBuilt("EBuilder") => FeaturesInExon(result.val)
    /\ HasBuilt("TBuilder") =>
         \A e \in DOMAIN result.val.exons :
             FeaturesInExon(result.val.exons[e])

\* the exons are sorted by start and span the transcript
ExonsSpanTranscript(trx) ==
    /\ \A k \in 1..(Len(trx.exons) - 1) :
         trx.exons[k].start <= trx.exons[k + 1].start
    /\ trx.exons # << >> =>
         /\ trx.exons[1].start = trx.start
         /\ trx.exons[Len(trx.exons)].end = trx.end

\* C19: the exons of every transcript returned by a successful
\* TBuilder.build (from exon coordinates, from exons made beforehand or
\* with no exon input) are sorted by start, the first exon starts at the
\* transcript start and the last exon ends at the transcript end.
C19_ExonsSpanTranscript ==
    HasBuilt("TBuilder") => ExonsSpanTranscript(result.val)

\* every transcript of the gene lies in the gene's interval
TranscriptsInGene(gx) ==
    \A k \in DOMAIN gx.transcripts :
        /\ gx.start <= gx.transcripts[k].trx.start
        /\ gx.transcripts[k].trx.end <= gx.end

\* the gene builder reaches the transcript coordinates
GeneCoordsInput ==
    /\ pc = "built"
    /\ input.builder = "GBuilder"
    /\ input.start <= input.end
    /\ resolve_strand_input(input.strand, input.strand_char).ok
    /\ ~IsSome(input.transcripts)
    /\ IsSome(input.transcript_coords)

\* the entry i of the transcript coordinates leaves the gene's interval
EntryOutside(i) ==
    \/ Unwrap(input.transcript_coords)[i].trx_coord[1] < input.start
    \/ Unwrap(input.transcript_coords)[i].trx_coord[2] > input.end

FirstOutside ==
    CHOOSE i \in DOMAIN Unwrap(input.transcript_coords) :
        /\ EntryOutside(i)
        /\ \A j \in 1..(i - 1) : ~EntryOutside(j)

\* the result is Err(TranscriptNotFullyEnveloped(Some(key)))
NotEnveloped(key) ==
    /\ result.status = "Err"
    /\ result.err = "TranscriptNotFullyEnveloped"
    /\ result.val = Some(key)

\* the build fails, with TranscriptNotFullyEnveloped and the id of the
\* first entry outside the gene unless an earlier entry failed to build
OutsideEntryReported(i) ==
    /\ result.status # "Ok"
    /\ i = 1 => NotEnveloped(Unwrap(input.transcript_coords)[i].key)
    /\ result.err = "TranscriptNotFullyEnveloped" =>
         NotEnveloped(Unwrap(input.transcript_coords)[i].key)

\* C20: every transcript of a gene returned by a successful GBuilder.build
\* (from transcript coordinates or from transcripts made beforehand) lies
\* in the gene's interval; a transcript coordinate that leaves the gene's
\* interval makes the build fail with TranscriptNotFullyEnveloped and that
\* transcript's id.
C20_TranscriptsInGene ==
    /\ HasBuilt("GBuilder") => TranscriptsInGene(result.val)
    /\ (GeneCoordsInput
        /\ \E i \in DOMAIN Unwrap(input.transcript_coords) : EntryOutside(i))
       => OutsideEntryReported(FirstOutside)

\* TBuilder.build was called with a non-empty list of exons made
\* beforehand, and the transcript interval and the strand are valid
PremadeExonsInput ==
    /\ pc = "built"
    /\ last.op = "TBuilder.build"
    /\ input.builder = "TBuilder"
    /\ IsSome(input.exons)
    /\ Unwrap(input.exons) # << >>
    /\ input.start <= input.end
    /\ resolve_strand_input(input.strand, input.strand_char).ok

\* C21: given a non-empty list of exons made beforehand, TBuilder returns
\* those exons unchanged and in the given order as the transcript's exons;
\* no inference and no coordinate validation runs, whatever exon
\* coordinates, coding coordinate or coding_incl_stop were supplied too.
C21_PremadeExonsKept ==
    PremadeExonsInput =>
        /\ result.status = "Ok"
        /\ result.val.exons = Unwrap(input.exons)

\* exons [2,3),[0,1) in that order with an invalid exon coordinate and a
\* coding coordinate are returned as given
C21_Witness ==
    /\ PremadeExonsInput
    /\ result.status = "Ok"
    /\ Len(result.val.exons) = 2
    /\ result.val.exons[1].start = 2
    /\ result.val.exons[2].start = 0
    /\ input.exon_coords = Some(<< <<2, 1>> >>)
    /\ input.coding_coord = Some(<<0, 3>>)
    /\ input.coding_incl_stop

UtrKinds == {"UTR", "UTR5", "UTR3"}

\* a transcript built from exon coordinates and a coding coordinate, on
\* any strand
AnyCodingBuilt == TranscriptBuilt /\ IsSome(input.coding_coord)

\* the label of a UTR before and after the coding region, by strand
UtrBefore(strand) ==
    IF strand = "Forward" THEN "UTR5"
    ELSE IF strand = "Reverse" THEN "UTR3" ELSE "UTR"

UtrAfter(strand) ==
    IF strand = "Forward" THEN "UTR3"
    ELSE IF strand = "Reverse" THEN "UTR5" ELSE "UTR"

\* the UTR sub-feature fx is labelled by its side of the coding region
\* [c0, c1) and the strand
UtrLabelled(fx, c0, c1, strand) ==
    fx.kind \in UtrKinds =>
        /\ fx.end <= c0 => fx.kind = UtrBefore(strand)
        /\ fx.start >= c1 => fx.kind = UtrAfter(strand)
        /\ strand = "Unknown" => fx.kind = "UTR"

\* C22: UTR labelling follows the strand: in a transcript built with a
\* coding region, every UTR sub-feature before the coding region is UTR5 on
\* Forward and UTR3 on Reverse, every UTR sub-feature after it is UTR3 on
\* Forward and UTR5 on Reverse, and on Unknown every UTR sub-feature has
\* kind UTR.
C22_UtrLabels ==
    AnyCodingBuilt =>
        \A k \in DOMAIN Flatten(result.val.exons) :
            UtrLabelled(Flatten(result.val.exons)[k], NormCoding.start,
                        NormCoding.end, result.val.strand)

\* a Reverse transcript with a UTR3 before and a UTR5 after the coding
\* region
C22_Witness ==
    /\ AnyCodingBuilt
    /\ result.val.strand = "Reverse"
    /\ \E k \in DOMAIN Flatten(result.val.exons) :
         /\ Flatten(result.val.exons)[k].kind = "UTR3"
         /\ Flatten(result.val.exons)[k].end <= NormCoding.start
    /\ \E k \in DOMAIN Flatten(result.val.exons) :
         /\ Flatten(result.val.exons)[k].kind = "UTR5"
         /\ Flatten(result.val.exons)[k].start >= NormCoding.end

\* a transcript was built and no mutator has run since
FreshTranscript ==
    /\ pc = "built"
    /\ last.op = "TBuilder.build"
    /\ result.status = "Ok"

CodingKinds == {"StartCodon", "CDS", "StopCodon"}

HasCodingFeatures(trx) ==
    \E k \in DOMAIN Flatten(trx.exons) :
        Flatten(trx.exons)[k].kind \in CodingKinds

CdsIndexes(trx) ==
    {k \in DOMAIN Flatten(trx.exons) : Flatten(trx.exons)[k].kind = "CDS"}

\* the start of the genomically first and the end of the genomically last
\* CDS sub-feature
FirstCdsStart(trx) ==
    LET k == CHOOSE i \in CdsIndexes(trx) : \A j \in CdsIndexes(trx) :
                 Flatten(trx.exons)[i].start <= Flatten(trx.exons)[j].start
    IN Flatten(trx.exons)[k].start

LastCdsEnd(trx) ==
    LET k == CHOOSE i \in CdsIndexes(trx) : \A j \in CdsIndexes(trx) :
                 Flatten(trx.exons)[i].end >= Flatten(trx.exons)[j].end
    IN Flatten(trx.exons)[k].end

CodingCoordAnswers(trx, oc) ==
    /\ ~HasCodingFeatures(trx) =>
         /\ coding_coord(trx, TRUE, oc) = Ok(None)
         /\ coding_coord(trx, FALSE, oc) = Ok(None)
    /\ trx.strand = "Unknown" =>
         /\ coding_coord(trx, FALSE, oc) = Ok(None)
         /\ CdsIndexes(trx) # {} =>
              coding_coord(trx, TRUE, oc)
                = Ok(Some(<<FirstCdsStart(trx), LastCdsEnd(trx)>>))

\* C23: Transcript.coding_coord(incl_stop) returns None when the
\* transcript has no coding sub-features (either flag, any strand) and on
\* the Unknown strand when incl_stop = false; on the Unknown strand with
\* incl_stop = true and a coding region it returns (start of the
\* genomically first CDS, end of the genomically last CDS).
C23_CodingCoordUnknown ==
    FreshTranscript => CodingCoordAnswers(result.val, overflow_checks)

\* the rows that start a maximal run of rows with one gene identifier
RunStarts ==
    {i \in DOMAIN rows : i = 1 \/ rows[i].gene_id # rows[i - 1].gene_id}

NumRuns == Cardinality(RunStarts)

NthStart(k) ==
    CHOOSE i \in RunStarts : Cardinality({j \in RunStarts : j < i}) = k - 1

NthLast(k) == IF k = NumRuns THEN Len(rows) ELSE NthStart(k + 1) - 1

\* the gene of the k-th maximal run: the run's gene identifier and its
\* transcripts in row order
ExpectedGene(k) ==
    [id |-> rows[NthStart(k)].gene_id,
     transcripts |-> [n \in 1..(NthLast(k) - NthStart(k) + 1) |->
                        rows[NthStart(k) + n - 1].transcript_id]]

\* C24: the genes stream yields one gene per maximal run of consecutive
\* rows sharing the same gene_id, in input order, each gene holding that
\* run's transcripts in row order, and returns none once the rows are
\* exhausted (rows of one gene separated by another gene's rows give two
\* genes with the same id).
C24_GenesByAdjacency ==
    pc = "stream" =>
        /\ \A k \in DOMAIN yielded :
             IF k <= NumRuns THEN yielded[k] = Some(ExpectedGene(k))
             ELSE yielded[k] = None
        /\ row_pos = (IF Len(yielded) >= NumRuns THEN Len(rows) + 1
                      ELSE NthStart(Len(yielded) + 1))

\* rows of g1 separated by a row of g2 gave two genes g1, the second with
\* two transcripts, before the stream returned none
C24_Witness ==
    /\ pc = "stream"
    /\ Len(rows) = 4
    /\ Len(yielded) = 4
    /\ yielded[1] = Some([id |-> "g1", transcripts |-> <<"t1">>])
    /\ yielded[2] = Some([id |-> "g2", transcripts |-> <<"t2">>])
    /\ yielded[3] = Some([id |-> "g1", transcripts |-> <<"t3", "t4">>])
    /\ yielded[4] = None

\* two exon coordinates overlap or are equal
ExonsOverlap(ec) ==
    \E i \in DOMAIN ec, j \in DOMAIN ec :
        i # j /\ ec[i][1] < ec[j][2] /\ ec[j][1] < ec[i][2]

\* C25: the defensive assertions (assert!(false, "unexpected: ...")) in the
\* exon classification of infer_exon_features are unreachable: for every
\* exon (start < end) and coding coordinate (c0 < c1) that reach the
\* synthesis walk, also with overlapping or duplicated exons, one
\* classification branch applies.
C25_NoUnexpectedPanic ==
    (pc = "built" /\ input.builder = "TBuilder") =>
        ~(result.status = Unexpected.status /\ result.err = Unexpected.err)

\* two overlapping exons and a coding coordinate went through the walk
C25_Witness ==
    /\ AnyCodingBuilt
    /\ last.op = "TBuilder.build"
    /\ Len(InputExons) = 2
    /\ ExonsOverlap(InputExons)
    /\ InputExons[1] # InputExons[2]
    /\ Len(result.val.exons) = 2
    /\ HasCodingFeatures(result.val)

\* the running CDS frame after the last CDS piece in transcription order
FrameAfterLastCds(trx) ==
    LET ps == CdsPieces(trx)
    IN calc_next_frame(span(ps[Len(ps)]), Unwrap(ps[Len(ps)].frame))

\* C26: for every Forward or Reverse transcript built with a coding
\* region, the running CDS frame returns to 0 after the last CDS piece in
\* transcription order, i.e. the total span of the CDS sub-features is a
\* multiple of 3.
C26_CdsFrameReturnsToZero ==
    (CodingBuilt /\ CdsPieces(result.val) # << >>) =>
        /\ FrameAfterLastCds(result.val) = 0
        /\ KindSpan(result.val, "CDS") % 3 = 0

\* every exon of the transcript has the transcript's seq_name and strand
ExonsShareSeqNameAndStrand(trx) ==
    \A k \in DOMAIN trx.exons :
        /\ trx.exons[k].seq_name = trx.seq_name
        /\ trx.exons[k].strand = trx.strand

\* C27: after any sequence of the public mutators on a built transcript
\* (set_id, set_gene_id, set_seq_name, set_strand, set_attributes), every
\* exon of the transcript still has the same seq_name and the same strand
\* as the transcript.
C27_MutatorsKeepExonsAligned ==
    HasBuilt("TBuilder") => ExonsShareSeqNameAndStrand(result.val)

\* a transcript built on the Unknown strand from exon coordinates and a
\* coding coordinate
UnknownCodingBuilt == AnyCodingBuilt /\ result.val.strand = "Unknown"

\* the intersections of the exons with [c0, c1), in exon order
ExonPiecesIn(coords, c0, c1) ==
    SelectSeq([k \in DOMAIN coords |->
                 <<Max(coords[k][1], c0), Min(coords[k][2], c1)>>],
              LAMBDA p : p[1] < p[2])

CdsIntervals(trx) ==
    LET cds == SelectSeq(Flatten(trx.exons), LAMBDA fx : fx.kind = "CDS")
    IN [k \in DOMAIN cds |-> <<cds[k].start, cds[k].end>>]

\* C28: on the Unknown strand a transcript built with a coding coordinate C
\* has C left unchanged by the normalisation, also with coding_incl_stop =
\* true, holds no StartCodon and no StopCodon sub-feature, has only UTR and
\* CDS sub-features, all with frame None, and its CDS pieces are exactly
\* the intersections of the exons with [c0, c1).
C28_UnknownStrandCoding ==
    UnknownCodingBuilt =>
        /\ NormCoding.start = InputCoding[1]
        /\ NormCoding.end = InputCoding[2]
        /\ \A k \in DOMAIN Flatten(result.val.exons) :
             /\ Flatten(result.val.exons)[k].kind \in {"UTR", "CDS"}
             /\ Flatten(result.val.exons)[k].frame = None
        /\ CdsIntervals(result.val)
             = ExonPiecesIn(InputExons, InputCoding[1], InputCoding[2])

\* a coding coordinate that includes the stop codon and spans two exons,
\* with UTR on both sides
C28_Witness ==
    /\ UnknownCodingBuilt
    /\ input.coding_incl_stop
    /\ Len(CdsIntervals(result.val)) = 2
    /\ KindSpan(result.val, "UTR") > 0
    /\ InputCoding[1] > FirstStart
    /\ InputCoding[2] < LastEnd

\* the transcript ids of the entry e of a gene's transcript map: the
\* transcript's own id and the transcript_id of each of its exons
TranscriptIdsOf(e) ==
    <<e.trx.id, [k \in DOMAIN e.trx.exons |-> e.trx.exons[k].transcript_id]>>

KeyIsTranscriptId(e) == e.trx.id = Some(e.key)

\* a step of Gene.set_id leaves the transcript ids and the agreement of
\* keys and transcript ids as they were
GeneSetIdKeepsTranscriptIds ==
    (HasBuilt("GBuilder") /\ last'.op = "Gene.set_id") =>
        \A k \in DOMAIN result.val.transcripts :
            /\ TranscriptIdsOf(result'.val.transcripts[k])
                 = TranscriptIdsOf(result.val.transcripts[k])
            /\ KeyIsTranscriptId(result.val.transcripts[k])
                 => KeyIsTranscriptId(result'.val.transcripts[k])

\* C29: Gene.set_id changes only gene identifiers: after Gene.set_id(x)
\* every transcript's own id and every exon's transcript_id are the same
\* as before the call, and each key of the gene's transcript map still
\* equals the id of the transcript stored under it.
C29_GeneSetIdFrame == [][GeneSetIdKeepsTranscriptIds]_vars

TilingKinds == UtrKinds \cup {"CDS", "StopCodon"}

\* the UTR, CDS and StopCodon sub-features of the exon that hold the base b
TilesAt(exon, b) ==
    {k \in DOMAIN exon.features :
        /\ exon.features[k].kind \in TilingKinds
        /\ exon.features[k].start <= b
        /\ b < exon.features[k].end}

\* every base of the exon lies in exactly one UTR, CDS or StopCodon
\* sub-feature
ExonTiled(exon) ==
    \A b \in exon.start..(exon.end - 1) : Cardinality(TilesAt(exon, b)) = 1

\* every StartCodon of the exon lies inside a CDS of the exon
StartCodonsInCds(exon) ==
    \A k \in DOMAIN exon.features :
        exon.features[k].kind = "StartCodon" =>
            \E j \in DOMAIN exon.features :
                /\ exon.features[j].kind = "CDS"
                /\ exon.features[j].start <= exon.features[k].start
                /\ exon.features[k].end <= exon.features[j].end

\* C30: in every Forward or Reverse transcript built with a coding region,
\* the UTR, CDS and StopCodon sub-features of each exon tile the exon
\* exactly (every exonic base lies in exactly one of them, also after the
\* backtracking that shrinks or drops a UTR3 emitted before), and every
\* StartCodon sub-feature lies inside the CDS sub-feature of the same exon.
C30_FeaturesTileExon ==
    CodingBuilt =>
        \A k \in DOMAIN result.val.exons :
            /\ ExonTiled(result.val.exons[k])
            /\ StartCodonsInCds(result.val.exons[k])

====
